---- MODULE Spec2Model ----
(***************************************************************************)
(* Prune planner (PrunePlan) and prune executor (prune_repository) of      *)
(* rustic_core, together with the Indexer they share, as a state machine   *)
(* over a small repository: index files, pack files, snapshots.            *)
(***************************************************************************)
EXTENDS Integers, Sequences, FiniteSets, TLC

\* ------------------------------------------------------------------------
\* Generic helpers
\* ------------------------------------------------------------------------
Range(s) == {s[i] : i \in 1..Len(s)}

Min(a, b) == IF a <= b THEN a ELSE b

RECURSIVE SeqSum(_)
SeqSum(s) == IF s = <<>> THEN 0 ELSE Head(s) + SeqSum(Tail(s))

RECURSIVE Flatten(_)
Flatten(ss) == IF ss = <<>> THEN <<>> ELSE Head(ss) \o Flatten(Tail(ss))

Restrict(f, S) == [x \in S |-> f[x]]

\* Sum of the values of a function with a finite domain.
RECURSIVE FnSum(_)
FnSum(f) ==
    IF DOMAIN f = {} THEN 0
    ELSE LET x == CHOOSE y \in DOMAIN f : TRUE
         IN  f[x] + FnSum(Restrict(f, DOMAIN f \ {x}))

\* All orderings of a finite set, as sequences without repetition.
Orderings(S) ==
    {f \in [1..Cardinality(S) -> S] : \A i, j \in 1..Cardinality(S) : f[i] = f[j] => i = j}

\* ------------------------------------------------------------------------
\* Bounds of the model
\* ------------------------------------------------------------------------
\* Largest value the clock may reach (successive prune runs advance it).
MaxTime == 4
\* Number of intermediate (age triggered) index flushes allowed in a behaviour.
MaxFlushes == 1
\* Number of blobs after which the repacker's packer saves its open pack.
PackCapacity == 2
\* indexer constants::MAX_COUNT, the number of buffered blobs at which the
\* indexer saves its file: 50 000 in the program, scaled down to the packs of
\* the model.
MAX_COUNT == 4
\* The clock of SpecIndexer shows multiples of ClockStep seconds, up to
\* MaxClock.
ClockStep == 150
MaxClock == 350
\* Number of add / add_remove calls and of finalize calls in SpecIndexer.
MaxAdds == 2
MaxFinalize == 2

\* ------------------------------------------------------------------------
\* Program constants
\* ------------------------------------------------------------------------
\* Option<DateTime> = None.
NoTime == -1
\* Option<u32> = None (IndexPack.size, IndexBlob.uncompressed_length).
NoSize == 0
\* u8 counter of used_ids saturates here.
CounterMax == 255
\* constants::MIN_INDEX_LEN
MIN_INDEX_LEN == 10000
\* indexer constants::MAX_AGE, in seconds
MAX_AGE == 300

\* ------------------------------------------------------------------------
\* Blobs, trees, snapshots
\* ------------------------------------------------------------------------
TreeBlobs == {1, 2}
DataBlobs == {3, 4, 5, 6}
BlobIds == TreeBlobs \cup DataBlobs

BlobTpe(b) == IF b \in TreeBlobs THEN "tree" ELSE "data"
BlobLength(b) == IF b = 3 THEN 2 ELSE 1

\* The nodes of the two trees of the model.  Tree 1 is a root directory with
\* one file (contents 3, 4) and one sub directory (tree 2); tree 2 holds one
\* file (contents 4, 6).  Blob 5 is referenced by no tree.
FileNode(content) == [node_type |-> "file", content |-> content, subtree |-> 0]
DirNode(subtree) == [node_type |-> "dir", content |-> <<>>, subtree |-> subtree]
TreeNodes(t) ==
    IF t = 1 THEN <<FileNode(<<3, 4>>), DirNode(2)>>
    ELSE <<FileNode(<<4, 6>>)>>

\* An IndexBlob.
IndexBlob(b, compressed) ==
    [id |-> b, tpe |-> BlobTpe(b), length |-> BlobLength(b),
     uncompressed_length |-> IF compressed THEN BlobLength(b) + 1 ELSE NoSize]

\* An IndexPack.
IndexPack(id, time, size, blobs) == [id |-> id, time |-> time, size |-> size, blobs |-> blobs]

\* IndexPack::blob_type
blob_type(p) == IF p.blobs = <<>> THEN "data" ELSE p.blobs[1].tpe

\* Size of the pack file of a pack with these blobs: the blobs, one header
\* entry per blob and the header length field.
PackFileSize(blobs) == SeqSum([i \in 1..Len(blobs) |-> blobs[i].length]) + Len(blobs) + 1

\* IndexPack::pack_size
pack_size(p) == IF p.size # NoSize THEN p.size ELSE PackFileSize(p.blobs)

\* BlobType::is_cacheable
is_cacheable(tpe) == tpe = "tree"

\* BlobType ordering used by PackInfo::cmp (tree packs first).
BlobTypeRank(tpe) == IF tpe = "tree" THEN 0 ELSE 1

\* PackSizer: a pack is of acceptable size iff it is not too small.
is_too_small(tpe, size) == size < 4
is_too_large(tpe, size) == FALSE
size_ok(tpe, size) == ~is_too_small(tpe, size) /\ ~is_too_large(tpe, size)
\* PackSizer::pack_size, the target size of a new pack.
target_pack_size(tpe) == 8


\* The blobs a tree blob refers to.
Children(b) ==
    IF b \in TreeBlobs
    THEN UNION {Range(n.content) \cup (IF n.node_type = "dir" THEN {n.subtree} ELSE {}) :
                  n \in Range(TreeNodes(b))}
    ELSE {}

RECURSIVE Closure(_)
Closure(S) ==
    LET T == S \cup UNION {Children(b) : b \in S}
    IN  IF T = S THEN S ELSE Closure(T)

\* The entries of the lists of a set of index files, and their pack ids.
Listed(ix) == UNION {Range(ix[f].packs) : f \in DOMAIN ix}
Tombstoned(ix) == UNION {Range(ix[f].packs_to_delete) : f \in DOMAIN ix}
Ids(entries) == {p.id : p \in entries}
BlobsOf(p) == {p.blobs[k].id : k \in 1..Len(p.blobs)}

\* ------------------------------------------------------------------------
\* Planner: PrunePack, PruneIndex, PrunePlan::new
\* ------------------------------------------------------------------------
PackToDo == {"Undecided", "Keep", "Repack", "MarkDelete", "KeepMarked",
             "KeepMarkedAndCorrect", "Recover", "Delete"}

\* PrunePack::from_index_pack
from_index_pack(p, delete_mark) ==
    [id |-> p.id, blob_type |-> blob_type(p), size |-> pack_size(p),
     delete_mark |-> delete_mark, to_do |-> "Undecided", time |-> p.time,
     blobs |-> p.blobs]

\* PrunePack::into_index_pack
into_index_pack(pack) == IndexPack(pack.id, pack.time, NoSize, pack.blobs)

\* PrunePack::into_index_pack_with_time
into_index_pack_with_time(pack, time) == IndexPack(pack.id, time, NoSize, pack.blobs)

\* PrunePack::is_compressed
is_compressed(pack) == \A i \in 1..Len(pack.blobs) : pack.blobs[i].uncompressed_length # NoSize

\* The duplicate filter of PrunePlan::new: keeps the first occurrence of each
\* pack id that is not yet in `processed`.
RECURSIVE filter_duplicates(_, _)
filter_duplicates(packs, processed) ==
    IF packs = <<>>
    THEN [kept |-> <<>>, processed |-> processed, modified |-> FALSE]
    ELSE LET p == Head(packs)
             no_duplicate == p.id \notin processed
             rest == filter_duplicates(Tail(packs), processed \cup {p.id})
         IN  [kept |-> IF no_duplicate THEN <<p>> \o rest.kept ELSE rest.kept,
              processed |-> rest.processed,
              modified |-> rest.modified \/ ~no_duplicate]

\* First loop of PrunePlan::new over the index files.
RECURSIVE new_collect(_, _, _)
new_collect(files, processed_packs, processed_packs_delete) ==
    IF files = <<>>
    THEN [index_files |-> <<>>, processed_packs |-> processed_packs]
    ELSE LET f == Head(files)
             live == filter_duplicates(f.packs, processed_packs)
             del == filter_duplicates(f.packs_to_delete, processed_packs_delete)
             rest == new_collect(Tail(files), live.processed, del.processed)
             index == [id |-> f.id,
                       modified |-> live.modified \/ del.modified,
                       packs |-> [i \in 1..Len(live.kept) |-> from_index_pack(live.kept[i], FALSE)]
                                 \o [i \in 1..Len(del.kept) |-> from_index_pack(del.kept[i], TRUE)]]
         IN  [index_files |-> <<index>> \o rest.index_files,
              processed_packs |-> rest.processed_packs]

\* Faulty variant of retain_packs: the index file is not flagged.
retain_packs_unflagged(index, processed_packs) ==
    LET keep(p) == ~p.delete_mark \/ p.id \notin processed_packs
    IN  [index EXCEPT !.packs = SelectSeq(index.packs, keep)]

\* Faulty variant of retain_packs: nothing is dropped.
retain_packs_skipped(index, processed_packs) == index

\* Second loop of PrunePlan::new: a marked pack that is also indexed as a
\* live pack is dropped from the marked side.
retain_packs(index, processed_packs) ==
    LET keep(p) == ~p.delete_mark \/ p.id \notin processed_packs
        packs == SelectSeq(index.packs, keep)
    IN  [index EXCEPT !.packs = packs,
                      !.modified = @ \/ (Len(packs) # Len(index.packs))]

\* The index_files of PrunePlan::new.
new_index_files(files) ==
    LET c == new_collect(files, {}, {})
    IN  [i \in 1..Len(c.index_files) |-> retain_packs(c.index_files[i], c.processed_packs)]

\* PruneIndex::len
index_len(index) == SeqSum([i \in 1..Len(index.packs) |-> Len(index.packs[i].blobs)])

\* ------------------------------------------------------------------------
\* Planner: used blobs
\* ------------------------------------------------------------------------
\* Blob ids of the tree blobs listed in the index files (packs and
\* packs_to_delete): the trees-only global index of from_prune_options.
TreeIndex(files) ==
    {b.id : b \in {x \in UNION {Range(p.blobs) :
                     p \in UNION {Range(files[i].packs) \cup Range(files[i].packs_to_delete) :
                                    i \in 1..Len(files)}} : x.tpe = "tree"}}

\* TreeStreamerOnce: every tree reachable from the roots, each once.
RECURSIVE StreamTrees(_, _)
StreamTrees(pending, visited) ==
    IF pending = {} THEN visited
    ELSE LET t == CHOOSE x \in pending : TRUE
             subs == {n.subtree : n \in {m \in Range(TreeNodes(t)) : m.node_type = "dir"}}
         IN  StreamTrees((pending \cup subs) \ (visited \cup {t}), visited \cup {t})

\* find_used_blobs: the used ids with counter 0, or an error when a tree
\* cannot be loaded through the index.
find_used_blobs(snap_trees, files) ==
    LET trees == StreamTrees(snap_trees, {})
        ids == snap_trees
               \cup UNION {UNION {IF n.node_type = "file" THEN Range(n.content)
                                  ELSE IF n.node_type = "dir" THEN {n.subtree} ELSE {} :
                                  n \in Range(TreeNodes(t))} : t \in trees}
    IN  IF trees \subseteq TreeIndex(files)
        THEN [err |-> "none", ids |-> [b \in ids |-> 0]]
        ELSE [err |-> "TreeNotFound", ids |-> [b \in {} |-> 0]]

\* u8::saturating_add
saturating_add(count, n) == Min(count + n, CounterMax)

\* PrunePlan::count_used_blobs
RECURSIVE count_blobs(_, _)
count_blobs(used_ids, blobs) ==
    IF blobs = <<>> THEN used_ids
    ELSE LET id == Head(blobs).id
         IN  count_blobs(IF id \in DOMAIN used_ids
                         THEN [used_ids EXCEPT ![id] = saturating_add(@, 1)]
                         ELSE used_ids,
                         Tail(blobs))

count_used_blobs(used_ids, index_files) ==
    count_blobs(used_ids,
                Flatten([i \in 1..Len(index_files) |->
                            Flatten([j \in 1..Len(index_files[i].packs) |->
                                        index_files[i].packs[j].blobs])]))

\* Faulty variant of check: the counters are not looked at.
check_ignored(used_ids) == TRUE

\* PrunePlan::check
check(used_ids) == \A id \in DOMAIN used_ids : used_ids[id] # 0

\* ------------------------------------------------------------------------
\* Planner: PackInfo::from_pack
\* ------------------------------------------------------------------------
PackInfo0(tpe) ==
    [blob_type |-> tpe, used_blobs |-> 0, unused_blobs |-> 0, used_size |-> 0, unused_size |-> 0]

pi_unused(pi, blob) ==
    [pi EXCEPT !.unused_size = @ + blob.length, !.unused_blobs = @ + 1]

pi_used(pi, blob) ==
    [pi EXCEPT !.used_size = @ + blob.length, !.used_blobs = @ + 1]

pi_remark_used(pi, blob) ==
    [pi EXCEPT !.unused_size = @ - blob.length, !.unused_blobs = @ - 1,
               !.used_size = @ + blob.length, !.used_blobs = @ + 1]

is_unneeded(used_ids, id) == id \notin DOMAIN used_ids \/ used_ids[id] = 0

\* The `position` search of from_pack, from blob i on: first_needed = 0 is None.
RECURSIVE first_needed_scan(_, _, _, _)
first_needed_scan(blobs, i, pi, used_ids) ==
    IF i > Len(blobs)
    THEN [pi |-> pi, used_ids |-> used_ids, first_needed |-> 0]
    ELSE LET blob == blobs[i]
         IN  IF is_unneeded(used_ids, blob.id)
             THEN first_needed_scan(blobs, i + 1, pi_unused(pi, blob), used_ids)
             ELSE LET dec == [used_ids EXCEPT ![blob.id] = @ - 1]
                  IN  IF dec[blob.id] = 0
                      THEN [pi |-> pi_used(pi, blob), used_ids |-> dec, first_needed |-> i]
                      ELSE first_needed_scan(blobs, i + 1, pi_unused(pi, blob), dec)

\* Reprocessing of the blobs before the first needed one.
RECURSIVE remark_before(_, _, _, _, _)
remark_before(blobs, i, last, pi, used_ids) ==
    IF i > last THEN [pi |-> pi, used_ids |-> used_ids]
    ELSE LET blob == blobs[i]
         IN  IF is_unneeded(used_ids, blob.id)
             THEN remark_before(blobs, i + 1, last, pi, used_ids)
             ELSE remark_before(blobs, i + 1, last, pi_remark_used(pi, blob),
                                [used_ids EXCEPT ![blob.id] = 0])

\* Faulty variant of mark_after: the counter of a used blob is decreased, not
\* set to 0.
RECURSIVE mark_after_decreasing(_, _, _, _)
mark_after_decreasing(blobs, i, pi, used_ids) ==
    IF i > Len(blobs) THEN [pi |-> pi, used_ids |-> used_ids]
    ELSE LET blob == blobs[i]
         IN  IF is_unneeded(used_ids, blob.id)
             THEN mark_after_decreasing(blobs, i + 1, pi_unused(pi, blob), used_ids)
             ELSE mark_after_decreasing(blobs, i + 1, pi_used(pi, blob),
                                        [used_ids EXCEPT ![blob.id] = @ - 1])

\* Processing of the blobs after the first needed one.
RECURSIVE mark_after(_, _, _, _)
mark_after(blobs, i, pi, used_ids) ==
    IF i > Len(blobs) THEN [pi |-> pi, used_ids |-> used_ids]
    ELSE LET blob == blobs[i]
         IN  IF is_unneeded(used_ids, blob.id)
             THEN mark_after(blobs, i + 1, pi_unused(pi, blob), used_ids)
             ELSE mark_after(blobs, i + 1, pi_used(pi, blob),
                             [used_ids EXCEPT ![blob.id] = 0])

\* PackInfo::from_pack
from_pack(pack, used_ids) ==
    LET s == first_needed_scan(pack.blobs, 1, PackInfo0(pack.blob_type), used_ids)
    IN  IF s.first_needed = 0
        THEN [pi |-> s.pi, used_ids |-> s.used_ids]
        ELSE LET b == remark_before(pack.blobs, 1, s.first_needed - 1, s.pi, s.used_ids)
             IN  mark_after(pack.blobs, s.first_needed + 1, b.pi, b.used_ids)


\* ------------------------------------------------------------------------
\* Planner: statistics and PrunePack::set_todo
\* ------------------------------------------------------------------------
BlobTypes == {"tree", "data"}

SizeStats0 == [used |-> 0, unused |-> 0, remove |-> 0, repack |-> 0, repackrm |-> 0]
DeleteStats0 == [remove |-> 0, recover |-> 0, keep |-> 0]

\* PruneStats::default
PruneStats0 ==
    [packs_to_delete |-> DeleteStats0,
     size_to_delete |-> DeleteStats0,
     packs |-> [used |-> 0, partly_used |-> 0, unused |-> 0, repack |-> 0, keep |-> 0],
     blobs |-> [t \in BlobTypes |-> SizeStats0],
     size |-> [t \in BlobTypes |-> SizeStats0],
     packs_unref |-> 0,
     size_unref |-> 0,
     index_files |-> 0,
     index_files_rebuild |-> 0]

\* SizeStats::total
total(s) == s.used + s.unused
\* SizeStats::unused_after_prune
unused_after_prune(s) == s.unused - s.remove - s.repackrm
\* SizeStats::total_after_prune
total_after_prune(s) == s.used + unused_after_prune(s)

\* PruneStats::size_sum
size_sum(stats) ==
    [f \in DOMAIN SizeStats0 |-> stats.size["tree"][f] + stats.size["data"][f]]

\* The statistics part of PrunePack::set_todo.
set_todo_stats(pack, todo, pi, stats) ==
    LET tpe == pack.blob_type
    IN  CASE todo = "Keep" -> [stats EXCEPT !.packs.keep = @ + 1]
          [] todo = "Repack" ->
                [stats EXCEPT !.packs.repack = @ + 1,
                              !.blobs[tpe].repack = @ + pi.unused_blobs + pi.used_blobs,
                              !.blobs[tpe].repackrm = @ + pi.unused_blobs,
                              !.size[tpe].repack = @ + pi.unused_size + pi.used_size,
                              !.size[tpe].repackrm = @ + pi.unused_size]
          [] todo = "MarkDelete" ->
                [stats EXCEPT !.blobs[tpe].remove = @ + pi.unused_blobs,
                              !.size[tpe].remove = @ + pi.unused_size]
          [] todo = "Recover" ->
                [stats EXCEPT !.packs_to_delete.recover = @ + 1,
                              !.size_to_delete.recover = @ + pack.size]
          [] todo = "Delete" ->
                [stats EXCEPT !.packs_to_delete.remove = @ + 1,
                              !.size_to_delete.remove = @ + pack.size]
          [] todo \in {"KeepMarked", "KeepMarkedAndCorrect"} ->
                [stats EXCEPT !.packs_to_delete.keep = @ + 1,
                              !.size_to_delete.keep = @ + pack.size]

\* PrunePack::set_todo applied to pack pack_num of index index_num of a
\* planner state st (fields index_files and stats).
set_todo(st, index_num, pack_num, todo, pi) ==
    LET pack == st.index_files[index_num].packs[pack_num]
    IN  [st EXCEPT !.index_files[index_num].packs[pack_num].to_do = todo,
                   !.stats = set_todo_stats(pack, todo, pi, @)]

\* ------------------------------------------------------------------------
\* Planner: decide_packs
\* ------------------------------------------------------------------------
\* Faulty variant of too_young: keep_pack is not subtracted.
too_young_without_keep_pack(pack, time, keep_pack) == pack.time # NoTime /\ pack.time > time

\* too_young = pack.time > Some(self.time - keep_pack); None is below every Some.
too_young(pack, time, keep_pack) == pack.time # NoTime /\ pack.time > time - keep_pack

\* Faulty variant of may_delete: keep_delete is not waited for.
may_delete_at_once(pack, time, keep_delete) == pack.time # NoTime

\* The guard of the arm that decides Delete for an unneeded marked pack.
may_delete(pack, time, keep_delete) == pack.time # NoTime /\ time - pack.time >= keep_delete


\* The match of decide_packs: the decision for one pack, "Candidate" standing
\* for a push to repack_candidates with the given reason.
pack_decision(pack, pi, time, o) ==
    LET young == too_young(pack, time, o.keep_pack)
        keep_uncacheable == o.repack_cacheable_only /\ ~is_cacheable(pack.blob_type)
        to_compress == o.repack_uncompressed /\ ~is_compressed(pack)
        size_mismatch == ~size_ok(pack.blob_type, pack.size)
        decided(todo) == [todo |-> todo, reason |-> "none"]
        candidate(reason) == [todo |-> "Candidate", reason |-> reason]
    IN  IF ~pack.delete_mark
        THEN IF pi.used_blobs = 0
             THEN IF young THEN decided("Keep") ELSE decided("MarkDelete")
             ELSE IF pi.unused_blobs = 0
                  THEN IF young \/ keep_uncacheable THEN decided("Keep")
                       ELSE IF to_compress \/ o.repack_all THEN candidate("ToCompress")
                       ELSE IF size_mismatch THEN candidate("SizeMismatch")
                       ELSE decided("Keep")
                  ELSE IF young \/ keep_uncacheable THEN decided("Keep")
                       ELSE candidate("PartlyUsed")
        ELSE IF pi.used_blobs = 0
             THEN IF may_delete(pack, time, o.keep_delete)
                  THEN decided("Delete")
                  ELSE IF pack.time = NoTime THEN decided("KeepMarkedAndCorrect")
                  ELSE decided("KeepMarked")
             ELSE decided("Recover")

\* The counters of stats.packs updated in the match of decide_packs.
pack_class_stats(pack, pi, stats) ==
    IF pack.delete_mark THEN stats
    ELSE IF pi.used_blobs = 0 THEN [stats EXCEPT !.packs.unused = @ + 1]
    ELSE IF pi.unused_blobs = 0 THEN [stats EXCEPT !.packs.used = @ + 1]
    ELSE [stats EXCEPT !.packs.partly_used = @ + 1]

\* Body of the innermost loop of decide_packs for the pack at pos = <<index_num, pack_num>>.
decide_pack(st, pos, time, o) ==
    LET pack == st.index_files[pos[1]].packs[pos[2]]
        r == from_pack(pack, st.used_ids)
        pi == r.pi
        stats1 == [st.stats EXCEPT !.blobs[pi.blob_type].used = @ + pi.used_blobs,
                                   !.blobs[pi.blob_type].unused = @ + pi.unused_blobs,
                                   !.size[pi.blob_type].used = @ + pi.used_size,
                                   !.size[pi.blob_type].unused = @ + pi.unused_size]
        st1 == [st EXCEPT !.used_ids = r.used_ids,
                          !.stats = pack_class_stats(pack, pi, stats1)]
        d == pack_decision(pack, pi, time, o)
    IN  IF d.todo = "Candidate"
        THEN [st1 EXCEPT !.repack_candidates =
                  Append(@, [pi |-> pi, reason |-> d.reason,
                             index_num |-> pos[1], pack_num |-> pos[2]])]
        ELSE set_todo(st1, pos[1], pos[2], d.todo, pi)

\* The positions of the packs with the given delete_mark, in index order.
pack_positions(index_files, mark_case) ==
    Flatten([i \in 1..Len(index_files) |->
                SelectSeq([j \in 1..Len(index_files[i].packs) |-> <<i, j>>],
                          LAMBDA pos : index_files[i].packs[pos[2]].delete_mark = mark_case)])

RECURSIVE decide_loop(_, _, _, _)
decide_loop(st, positions, time, o) ==
    IF positions = <<>> THEN st
    ELSE decide_loop(decide_pack(st, Head(positions), time, o), Tail(positions), time, o)

\* PrunePlan::decide_packs: marked packs first, then the unmarked ones.
decide_packs(st, time, o) ==
    decide_loop(st,
                pack_positions(st.index_files, TRUE) \o pack_positions(st.index_files, FALSE),
                time, o)


\* ------------------------------------------------------------------------
\* Planner: decide_repack
\* ------------------------------------------------------------------------
\* LimitOption
Unlimited == [kind |-> "Unlimited", value |-> 0]
Size(n) == [kind |-> "Size", value |-> n]
Percentage(p) == [kind |-> "Percentage", value |-> p]

\* A converted limit: u64::MAX is kept symbolic (unlimited), no total of the
\* model comes near it.
Limit(n) == [unlimited |-> FALSE, value |-> n]
NoLimit == [unlimited |-> TRUE, value |-> 0]

\* Faulty variant of reaches: the limit itself is admitted.
exceeds(x, limit) == ~limit.unlimited /\ x > limit.value

\* x >= limit and x < limit for a converted limit.
reaches(x, limit) == ~limit.unlimited /\ x >= limit.value
below(x, limit) == limit.unlimited \/ x < limit.value

\* The max_unused of decide_repack.  The percentage case divides by 100 - p.
max_unused_divides_by_zero(max_unused, repack_uncompressed) ==
    ~repack_uncompressed /\ max_unused.kind = "Percentage" /\ max_unused.value = 100

max_unused_limit(max_unused, repack_uncompressed, stats) ==
    IF repack_uncompressed THEN Limit(0)
    ELSE IF max_unused.kind = "Unlimited" THEN NoLimit
    ELSE IF max_unused.kind = "Size" THEN Limit(max_unused.value)
    ELSE Limit((max_unused.value * size_sum(stats).used) \div (100 - max_unused.value))

\* The max_repack of decide_repack.
max_repack_limit(max_repack, stats) ==
    IF max_repack.kind = "Unlimited" THEN NoLimit
    ELSE IF max_repack.kind = "Size" THEN Limit(max_repack.value)
    ELSE Limit((max_repack.value * total(size_sum(stats))) \div 100)

\* PackInfo::cmp(a, b) is not Greater: tree packs first, then the highest
\* ratio of unused to used size first.
pi_le(a, b) ==
    \/ BlobTypeRank(a.blob_type) < BlobTypeRank(b.blob_type)
    \/ /\ a.blob_type = b.blob_type
       /\ b.unused_size * a.used_size <= a.unused_size * b.used_size

\* The results sort_unstable_by_key may produce: every ordering of the
\* candidates that is sorted by PackInfo (equal keys in any order).
sorted_candidates(candidates) ==
    {[i \in 1..Len(candidates) |-> candidates[f[i]]] :
        f \in {g \in Orderings(1..Len(candidates)) :
                 \A i, j \in 1..Len(candidates) :
                    i < j => pi_le(candidates[g[i]].pi, candidates[g[j]].pi)}}

\* Body of the first loop of decide_repack for one candidate.
repack_candidate(st, rc, max_repack, max_unused, no_resize) ==
    LET pi == rc.pi
        tpe == pi.blob_type
        total_repack_size == st.repack_size["tree"] + st.repack_size["data"]
    IN  IF \/ reaches(total_repack_size + pi.used_size, max_repack)
           \/ /\ below(unused_after_prune(size_sum(st.stats)), max_unused)
              /\ rc.reason = "PartlyUsed"
              /\ tpe = "data"
           \/ rc.reason = "SizeMismatch" /\ no_resize
        THEN set_todo(st, rc.index_num, rc.pack_num, "Keep", pi)
        ELSE IF rc.reason = "SizeMismatch"
        THEN [st EXCEPT !.resize_packs[tpe] = Append(@, rc),
                        !.repack_size[tpe] = @ + pi.used_size]
        ELSE [set_todo(st, rc.index_num, rc.pack_num, "Repack", pi)
                 EXCEPT !.repack_size[tpe] = @ + pi.used_size,
                        !.do_repack[tpe] = TRUE]

RECURSIVE repack_loop(_, _, _, _, _)
repack_loop(st, candidates, max_repack, max_unused, no_resize) ==
    IF candidates = <<>> THEN st
    ELSE repack_loop(repack_candidate(st, Head(candidates), max_repack, max_unused, no_resize),
                     Tail(candidates), max_repack, max_unused, no_resize)

\* Second loop of decide_repack: the packs which only need resizing.
RECURSIVE resize_loop(_, _, _)
resize_loop(st, resize_packs, todo) ==
    IF resize_packs = <<>> THEN st
    ELSE LET rc == Head(resize_packs)
         IN  resize_loop(set_todo(st, rc.index_num, rc.pack_num, todo, rc.pi),
                         Tail(resize_packs), todo)

resize_todo(st, tpe) ==
    IF st.do_repack[tpe] \/ st.repack_size[tpe] > target_pack_size(tpe)
    THEN "Repack" ELSE "Keep"

\* PrunePlan::decide_repack, with the candidates in the order the sort left them.
decide_repack(st, candidates, o) ==
    LET either == o.repack_uncompressed \/ o.repack_all
        max_unused == max_unused_limit(o.max_unused, either, st.stats)
        max_repack == max_repack_limit(o.max_repack, st.stats)
        st0 == [index_files |-> st.index_files, stats |-> st.stats,
                resize_packs |-> [t \in BlobTypes |-> <<>>],
                do_repack |-> [t \in BlobTypes |-> FALSE],
                repack_size |-> [t \in BlobTypes |-> 0]]
        st1 == repack_loop(st0, candidates, max_repack, max_unused, o.no_resize)
        st2 == resize_loop(st1, st1.resize_packs["tree"], resize_todo(st1, "tree"))
        st3 == resize_loop(st2, st1.resize_packs["data"], resize_todo(st1, "data"))
    IN  [index_files |-> st3.index_files, stats |-> st3.stats]

\* ------------------------------------------------------------------------
\* Planner: check_existing_packs, filter_index_files
\* ------------------------------------------------------------------------
\* check_size of check_existing_packs.
check_size(existing_packs, pack) ==
    IF pack.id \notin DOMAIN existing_packs THEN "PackDoesNotExist"
    ELSE IF existing_packs[pack.id] # pack.size THEN "PackSizeMismatch"
    ELSE "none"

\* The loop of check_existing_packs over the packs of all index files; st has
\* the fields used_ids, existing_packs and err.
RECURSIVE check_packs_loop(_, _)
check_packs_loop(st, packs) ==
    IF packs = <<>> \/ st.err # "none" THEN st
    ELSE LET pack == Head(packs)
             removed == Restrict(st.existing_packs, DOMAIN st.existing_packs \ {pack.id})
             st1 == [st EXCEPT !.existing_packs = removed]
         IN  check_packs_loop(
                CASE pack.to_do = "Undecided" -> [st1 EXCEPT !.err = "Undecided"]
                  [] pack.to_do \in {"Keep", "Recover"} ->
                        [st1 EXCEPT !.used_ids = Restrict(@, DOMAIN @ \ {b.id : b \in Range(pack.blobs)}),
                                    !.err = check_size(st.existing_packs, pack)]
                  [] pack.to_do = "Repack" ->
                        [st1 EXCEPT !.err = check_size(st.existing_packs, pack)]
                  [] OTHER -> st1,
                Tail(packs))

all_packs(index_files) == Flatten([i \in 1..Len(index_files) |-> index_files[i].packs])

\* PrunePlan::check_existing_packs
check_existing_packs(used_ids, existing_packs, index_files) ==
    check_packs_loop([used_ids |-> used_ids, existing_packs |-> existing_packs, err |-> "none"],
                     all_packs(index_files))

\* Faulty variant of must_modify: `modified` is not looked at.
must_modify_unflagged(index, instant_delete) ==
    \E i \in 1..Len(index.packs) :
       /\ index.packs[i].to_do # "Keep"
       /\ (instant_delete \/ index.packs[i].to_do # "KeepMarked")

\* must_modify of filter_index_files.
must_modify(index, instant_delete) ==
    \/ index.modified
    \/ \E i \in 1..Len(index.packs) :
          /\ index.packs[i].to_do # "Keep"
          /\ (instant_delete \/ index.packs[i].to_do # "KeepMarked")

\* Faulty variant of filter_index_files: a single small index file is
\* rewritten like any other.
filter_index_files_all(index_files, instant_delete) ==
    SelectSeq(index_files,
              LAMBDA index : must_modify(index, instant_delete)
                             \/ index_len(index) < MIN_INDEX_LEN)

\* PrunePlan::filter_index_files
filter_index_files(index_files, instant_delete) ==
    LET any_must_modify == \E i \in 1..Len(index_files) : must_modify(index_files[i], instant_delete)
        retained == SelectSeq(index_files,
                              LAMBDA index : must_modify(index, instant_delete)
                                             \/ index_len(index) < MIN_INDEX_LEN)
    IN  IF ~any_must_modify /\ Len(retained) = 1 THEN <<>> ELSE retained


\* ------------------------------------------------------------------------
\* Planner: PrunePlan::from_prune_options
\* ------------------------------------------------------------------------
NoPlan ==
    [time |-> NoTime, used_ids |-> {}, existing_packs |-> <<>>, index_files |-> <<>>,
     stats |-> PruneStats0]

failed_plan(e) == [err |-> e, plan |-> NoPlan]

\* The end of from_prune_options: decide_repack, check_existing_packs and
\* filter_index_files, for one order of the sorted candidates.
finish_plan(st, candidates, existing_packs, time, o) ==
    LET r == decide_repack(st, candidates, o)
        c == check_existing_packs(st.used_ids, existing_packs, r.index_files)
        kept == filter_index_files(r.index_files, o.instant_delete)
        unref == DOMAIN c.existing_packs
        stats == [r.stats EXCEPT
                    !.size_unref = FnSum(c.existing_packs),
                    !.packs_unref = Cardinality(unref),
                    !.index_files = Len(r.index_files),
                    !.index_files_rebuild = Len(kept)]
    IN  IF c.err # "none" THEN failed_plan(c.err)
        ELSE [err |-> "none",
              plan |-> [time |-> time, used_ids |-> DOMAIN c.used_ids,
                        existing_packs |-> c.existing_packs,
                        index_files |-> kept, stats |-> stats]]

\* PrunePlan::from_prune_options on the index files in the order the backend
\* streamed them, the root trees of the snapshots and the pack files found:
\* the set of its possible results.  The used_ids of the result keep their
\* keys only: after planning the counters are not read any more.
from_prune_options(files, snap_trees, pack_files, time, o, cfg) ==
    IF cfg.version < 2 /\ o.repack_uncompressed THEN {failed_plan("Unsupported")}
    ELSE LET u == find_used_blobs(snap_trees, files)
             index_files == new_index_files(files)
             used_ids == count_used_blobs(u.ids, index_files)
             st == decide_packs([index_files |-> index_files, used_ids |-> used_ids,
                                 stats |-> PruneStats0, repack_candidates |-> <<>>],
                                time, o)
         IN  IF u.err # "none" THEN {failed_plan(u.err)}
             ELSE IF ~check(used_ids) THEN {failed_plan("BlobMissing")}
             ELSE IF max_unused_divides_by_zero(o.max_unused, o.repack_uncompressed \/ o.repack_all)
             THEN {failed_plan("DivideByZero")}
             ELSE {finish_plan(st, c, pack_files, time, o) :
                      c \in sorted_candidates(st.repack_candidates)}

\* PrunePlan::repack_packs
repack_packs(index_files) ==
    {p.id : p \in {q \in Range(all_packs(index_files)) : q.to_do = "Repack"}}


\* ------------------------------------------------------------------------
\* Options and repository configurations of the model
\* ------------------------------------------------------------------------
\* keep_pack and keep_delete values, in clock units.
Durations == {0, 2}

\* The planning options every option set of the model starts from.
BaseOpts ==
    [max_repack |-> Unlimited, max_unused |-> Size(0), repack_uncompressed |-> FALSE,
     repack_all |-> FALSE, repack_cacheable_only |-> FALSE, no_resize |-> FALSE]

PlanningFields ==
    {"max_repack", "max_unused", "repack_uncompressed", "repack_all",
     "repack_cacheable_only", "no_resize"}

\* The PruneOptions the planner is called with: any keep_pack, instant_delete
\* and early_delete_index, and at most one planning option away from BaseOpts
\* (fast_repack and ignore_snaps are left at their defaults).
OptionSpace ==
    {o \in [max_repack : {Unlimited, Size(3)},
            max_unused : {Size(0), Unlimited},
            keep_pack : Durations,
            keep_delete : {2},
            instant_delete : BOOLEAN,
            early_delete_index : BOOLEAN,
            fast_repack : {FALSE},
            repack_uncompressed : BOOLEAN,
            repack_all : BOOLEAN,
            repack_cacheable_only : BOOLEAN,
            no_resize : BOOLEAN] :
        Cardinality({f \in PlanningFields : o[f] # BaseOpts[f]}) <= 1}

\* What is left of the options (and of the plan) when no call is running.
NoOpts ==
    [max_repack |-> Unlimited, max_unused |-> Unlimited, keep_pack |-> 0, keep_delete |-> 0,
     instant_delete |-> FALSE, early_delete_index |-> FALSE, fast_repack |-> FALSE,
     repack_uncompressed |-> FALSE, repack_all |-> FALSE, repack_cacheable_only |-> FALSE,
     no_resize |-> FALSE]

\* prune_repository reads three fields of the options only; keep_delete, which
\* the plan was made with, is kept for reference.
exec_opts(o) ==
    [NoOpts EXCEPT !.keep_delete = o.keep_delete,
                   !.instant_delete = o.instant_delete,
                   !.early_delete_index = o.early_delete_index,
                   !.fast_repack = o.fast_repack]

\* The packs a repository of the model may hold when the model starts.
CatalogPacks == 1..4
CatalogBlobs(p) ==
    CASE p = 1 -> <<IndexBlob(1, TRUE), IndexBlob(2, TRUE)>>
      [] p = 2 -> <<IndexBlob(3, TRUE), IndexBlob(4, TRUE), IndexBlob(5, TRUE)>>
      [] p = 3 -> <<IndexBlob(4, TRUE), IndexBlob(6, TRUE)>>
      [] p = 4 -> <<IndexBlob(6, FALSE), IndexBlob(6, FALSE)>>

\* Where a pack of the catalog is when the model starts: in no index and not
\* on disk; on disk only; live in index file 1 or 2 (old, or created just
\* now); in packs_to_delete of index file 2 (marked long ago, just now, or
\* without a time); live in both index files; live in index file 1 and also
\* in packs_to_delete of index file 2 (marked just now); in packs_to_delete
\* of index file 2, marked one clock unit ago.
Placements ==
    {"absent", "unref", "live1", "live2", "young1", "marked_old", "marked_new",
     "marked_notime", "dup_live", "live_and_marked", "marked_recent"}

PlacementMenu(p) ==
    CASE p = 1 -> {"live1", "young1", "marked_old", "live_and_marked"}
      [] p = 2 -> {"live1", "young1", "marked_old", "absent"}
      [] p = 3 -> {"live2", "live1", "marked_new", "dup_live", "absent"}
      [] p = 4 -> {"absent", "unref", "live2", "marked_notime"}

DefaultPlacement(p) ==
    CASE p = 1 -> "live1" [] p = 2 -> "live1" [] p = 3 -> "live2" [] p = 4 -> "absent"

\* The clock value when the model starts; "old" packs carry time 0.
StartTime == 2

InLive(pl, file) ==
    \/ file = 1 /\ pl \in {"live1", "young1", "dup_live", "live_and_marked"}
    \/ file = 2 /\ pl \in {"live2", "dup_live"}
InMarked(pl, file) ==
    file = 2 /\ pl \in {"marked_old", "marked_new", "marked_notime", "live_and_marked",
                         "marked_recent"}
LiveTime(pl) == IF pl = "young1" THEN StartTime ELSE 0
MarkedTime(pl) ==
    IF pl \in {"marked_new", "live_and_marked"} THEN StartTime
    ELSE IF pl = "marked_notime" THEN NoTime
    ELSE IF pl = "marked_recent" THEN StartTime - 1 ELSE 0

\* The pack ids of S in ascending order.
RECURSIVE Ascending(_)
Ascending(S) ==
    IF S = {} THEN <<>>
    ELSE LET m == CHOOSE x \in S : \A y \in S : x <= y
         IN  <<m>> \o Ascending(S \ {m})

\* A layout in which no blob occurs in two packs: pack 4 holds blob 6 in place
\* of pack 3.
DisjointLayout ==
    [p \in CatalogPacks |->
        CASE p = 3 -> "absent" [] p = 4 -> "live2" [] OTHER -> DefaultPlacement(p)]

\* A layout with two tombstones that are not due: pack 3 was marked one clock
\* unit ago, the tombstone of pack 4 has no time.
TombstoneLayout ==
    [p \in CatalogPacks |->
        CASE p = 3 -> "marked_recent" [] p = 4 -> "marked_notime" [] OTHER -> DefaultPlacement(p)]

\* The layouts: every pack at a placement of its menu, at most one pack away
\* from its default placement and at most three packs indexed; the disjoint
\* layout and the layout with the tombstones.
Layouts ==
    {l \in [CatalogPacks -> Placements] :
        /\ \A p \in CatalogPacks : l[p] \in PlacementMenu(p)
        /\ Cardinality({p \in CatalogPacks : l[p] # DefaultPlacement(p)}) <= 1
        /\ Cardinality({p \in CatalogPacks : l[p] \notin {"absent", "unref"}}) <= 3}
    \cup {DisjointLayout, TombstoneLayout}

LayoutFile(l, file) ==
    LET live == Ascending({p \in CatalogPacks : InLive(l[p], file)})
        marked == Ascending({p \in CatalogPacks : InMarked(l[p], file)})
    IN  [packs |-> [i \in 1..Len(live) |->
                      IndexPack(live[i], LiveTime(l[live[i]]), NoSize, CatalogBlobs(live[i]))],
         packs_to_delete |-> [i \in 1..Len(marked) |->
                      IndexPack(marked[i], MarkedTime(l[marked[i]]), NoSize, CatalogBlobs(marked[i]))]]

LayoutIndex(l) ==
    LET files == [file \in {1, 2} |-> LayoutFile(l, file)]
    IN  Restrict(files, {file \in {1, 2} :
                           files[file].packs # <<>> \/ files[file].packs_to_delete # <<>>})

LayoutPacks(l) ==
    [p \in {q \in CatalogPacks : l[q] # "absent"} |-> PackFileSize(CatalogBlobs(p))]

\* The sets of root trees of the snapshots of a repository.
SnapshotSets == {{}, {1}, {2}}

\* First id given to a pack or index file written by the model.
FirstNewId == 10


\* ------------------------------------------------------------------------
\* State
\* ------------------------------------------------------------------------
VARIABLES
    be_index,           \* backend: index file id -> IndexFile
    be_packs,           \* backend: pack file id -> size
    snapshots,          \* backend: root trees of the snapshot files
    config,             \* repository config: append_only, version
    now,                \* the clock
    pc,                 \* position of the caller / of prune_repository
    err,                \* error returned by the last call, or "none"
    opts,               \* PruneOptions of the running call
    plan,               \* PrunePlan returned by from_prune_options
    plan_time,          \* prune_repository: prune_plan.time
    packs,              \* prune_repository: the Vec `packs`
    pending,            \* positions of `packs` no worker has taken yet
    working,            \* position of a Repack pack in progress -> next blob
    used_ids,           \* prune_repository: keys of the shared used_ids map
    unreferenced,       \* prune_repository: existing_packs still to handle
    indexer,            \* the shared Indexer: file, count
    repacker,           \* blob type -> blobs of the open pack of its repacker
    indexes_remove,     \* prune_repository: indexes_remove
    data_packs_remove,  \* prune_repository: data_packs_remove
    tree_packs_remove,  \* prune_repository: tree_packs_remove
    next_id,            \* next fresh id of a pack or index file
    flushes,            \* intermediate (age triggered) index flushes so far
    start,              \* history: backend index and pack files when the run began
    warmed,             \* history: packs warmed up in this run
    handed,             \* history: <<pack id, blob id>> -> times handed to a repacker
    written,            \* history: index file ids written in this run
    new_packs,          \* history: pack ids written by the repackers in this run
    marked_at,          \* history: pack id -> plan time of the run that tombstoned it
    adds,               \* callers of the indexer: the add / add_remove calls to make
    todo,               \* positions of `adds` no caller has started
    inside,             \* position of a call inside add_with -> its next statement
    finalized,          \* number of finalize calls made on the indexer
    sn_store,           \* snapshot files of the repository
    sn_dest,            \* snapshot files of the destination repository of a copy
    sn_call,            \* the last call on the snapshot files and its arguments
    sn_result,          \* what that call returned
    copy_run,           \* copy: the locals of the running call and its history
    restore_run,        \* restore: the plan, the shared state of the writers, the calls made
    repair_run          \* repair_snapshots: its state and what it wrote

vars ==
    <<be_index, be_packs, snapshots, config, now, pc, err, opts, plan, plan_time, packs,
      pending, working, used_ids, unreferenced, indexer, repacker, indexes_remove,
      data_packs_remove, tree_packs_remove, next_id, flushes, start, warmed, handed,
      written, new_packs, marked_at, adds, todo, inside, finalized, sn_store, sn_dest,
      sn_call, sn_result, copy_run, restore_run, repair_run>>

backend == <<be_index, be_packs, snapshots, config>>
locals ==
    <<plan_time, packs, pending, working, used_ids, unreferenced, indexer, repacker,
      indexes_remove, data_packs_remove, tree_packs_remove>>
history == <<start, warmed, handed, written, new_packs, marked_at>>
indexer_calls == <<adds, todo, inside, finalized>>
snapshot_files == <<sn_store, sn_dest, sn_call, sn_result>>
\* What prune does not touch.
other_runs == <<copy_run, restore_run, repair_run>>
elsewhere == <<indexer_calls, snapshot_files, other_runs>>

\* IndexFile::default
IndexFile0 == [packs |-> <<>>, packs_to_delete |-> <<>>]

\* Option<BTreeSet<BlobId>>
None == [some |-> FALSE, ids |-> {}]
Some(ids) == [some |-> TRUE, ids |-> ids]

\* Indexer::new and Indexer::new_unindexed, created at `time`.
indexer_new(time) == [file |-> IndexFile0, count |-> 0, created |-> time, indexed |-> Some({})]
new_unindexed(time) == [file |-> IndexFile0, count |-> 0, created |-> time, indexed |-> None]

\* The local `indexer` while prune_repository is not running.
Indexer0 == new_unindexed(NoTime)
Repacker0 == [t \in BlobTypes |-> <<>>]
EmptyMap == <<>>

\* The locals of prune_repository before it runs and after it returned.
LocalsCleared ==
    /\ plan_time' = NoTime
    /\ packs' = <<>>
    /\ pending' = {}
    /\ working' = EmptyMap
    /\ used_ids' = {}
    /\ unreferenced' = EmptyMap
    /\ indexer' = Indexer0
    /\ repacker' = Repacker0
    /\ indexes_remove' = {}
    /\ data_packs_remove' = {}
    /\ tree_packs_remove' = {}

\* No caller of the indexer besides prune, and no snapshot file looked at.
NoIndexerCalls == adds = <<>> /\ todo = {} /\ inside = EmptyMap /\ finalized = 0
NoCall == [op |-> "none"]
NoSnapshotFiles == sn_store = {} /\ sn_dest = {} /\ sn_call = NoCall /\ sn_result = NoCall
NoOtherRuns == copy_run = NoCall /\ restore_run = NoCall /\ repair_run = NoCall

InitRun ==
    /\ pc = "idle"
    /\ err = "none"
    /\ opts = NoOpts
    /\ plan = NoPlan
    /\ plan_time = NoTime
    /\ packs = <<>>
    /\ pending = {}
    /\ working = EmptyMap
    /\ used_ids = {}
    /\ unreferenced = EmptyMap
    /\ indexer = Indexer0
    /\ repacker = Repacker0
    /\ indexes_remove = {}
    /\ data_packs_remove = {}
    /\ tree_packs_remove = {}
    /\ next_id = FirstNewId
    /\ flushes = 0
    /\ start = [index |-> be_index, packs |-> be_packs]
    /\ warmed = {}
    /\ handed = EmptyMap
    /\ written = {}
    /\ new_packs = {}
    /\ marked_at = EmptyMap
    /\ NoIndexerCalls
    /\ NoSnapshotFiles
    /\ NoOtherRuns

Init ==
    /\ \E l \in Layouts :
          /\ be_index = LayoutIndex(l)
          /\ be_packs = LayoutPacks(l)
    /\ snapshots \in SnapshotSets
    /\ config \in [append_only : BOOLEAN, version : {2}]
    /\ now = StartTime
    /\ InitRun


\* ------------------------------------------------------------------------
\* Indexer, repacker and the steps of prune_repository, as operators on the
\* record w of everything a step may change
\* ------------------------------------------------------------------------
World ==
    [indexer |-> indexer, repacker |-> repacker, be_index |-> be_index, be_packs |-> be_packs,
     next_id |-> next_id, flushes |-> flushes, written |-> written, new_packs |-> new_packs,
     now |-> now,
     used_ids |-> used_ids, handed |-> handed, marked_at |-> marked_at,
     data_packs_remove |-> data_packs_remove, tree_packs_remove |-> tree_packs_remove]

SetWorld(w) ==
    /\ indexer' = w.indexer
    /\ repacker' = w.repacker
    /\ be_index' = w.be_index
    /\ be_packs' = w.be_packs
    /\ next_id' = w.next_id
    /\ flushes' = w.flushes
    /\ written' = w.written
    /\ new_packs' = w.new_packs
    /\ used_ids' = w.used_ids
    /\ handed' = w.handed
    /\ marked_at' = w.marked_at
    /\ data_packs_remove' = w.data_packs_remove
    /\ tree_packs_remove' = w.tree_packs_remove

\* IndexFile::add
index_file_add(file, pack, delete) ==
    IF delete THEN [file EXCEPT !.packs_to_delete = Append(@, pack)]
    ELSE [file EXCEPT !.packs = Append(@, pack)]

\* Faulty variant of save: the file is written also when it is empty.
save_even_empty(w) ==
    [w EXCEPT !.be_index = (w.next_id :> w.indexer.file) @@ @,
              !.written = @ \cup {w.next_id},
              !.next_id = @ + 1]

\* Indexer::save: the file is written under a fresh id unless it is empty.
save(w) ==
    IF Len(w.indexer.file.packs) + Len(w.indexer.file.packs_to_delete) > 0
    THEN [w EXCEPT !.be_index = (w.next_id :> w.indexer.file) @@ @,
                   !.written = @ \cup {w.next_id},
                   !.next_id = @ + 1]
    ELSE w

\* Faulty variant of reset: the saved entries stay in the file.
reset_keeping_file(w) ==
    [w EXCEPT !.indexer.count = 0, !.indexer.created = w.now]

\* Indexer::reset
reset(w) ==
    [w EXCEPT !.indexer.file = IndexFile0, !.indexer.count = 0, !.indexer.created = w.now]

\* Indexer::finalize
finalize(w) == save(w)

\* The membership set after the ids of `blobs` were inserted.
insert_all(indexed, blobs) ==
    IF indexed.some THEN Some(indexed.ids \cup {blobs[k].id : k \in 1..Len(blobs)}) ELSE None

\* Indexer::add_with up to self.file.add(pack, delete).
append_pack(ix, pack, delete) ==
    [ix EXCEPT !.count = @ + Len(pack.blobs),
               !.indexed = insert_all(@, pack.blobs),
               !.file = index_file_add(@, pack, delete)]

\* self.created.elapsed(), Duration::ZERO when the clock went backwards.
elapsed(created, time) == IF time >= created THEN time - created ELSE 0

\* Faulty variant of must_save: `>` in place of `>=`.
must_save_late(ix, aged) == ix.count > MAX_COUNT \/ aged

\* The condition of "check if IndexFile needs to be saved".
must_save(ix, aged) == ix.count >= MAX_COUNT \/ aged

\* Indexer::add_with; `aged` says that MAX_AGE has elapsed since the indexer
\* was created or last reset.
add_with(w, pack, delete, aged) ==
    LET w1 == [w EXCEPT !.indexer = append_pack(@, pack, delete)]
    IN  IF must_save(w1.indexer, aged)
        THEN [reset(save(w1)) EXCEPT !.flushes = IF aged THEN @ + 1 ELSE @]
        ELSE w1

\* Indexer::add and Indexer::add_remove
add(w, pack, aged) == add_with(w, pack, FALSE, aged)
add_remove(w, pack, aged) == add_with(w, pack, TRUE, aged)

\* The age trigger may fire MaxFlushes times.
Aged(w, choice) == choice /\ w.flushes < MaxFlushes

\* The packer of a repacker saves its open pack: the pack file is written,
\* then the pack is added to the indexer.
save_pack(w, tpe, time, aged) ==
    LET blobs == w.repacker[tpe]
        w1 == [w EXCEPT !.be_packs = (w.next_id :> PackFileSize(blobs)) @@ @,
                        !.new_packs = @ \cup {w.next_id},
                        !.next_id = @ + 1,
                        !.repacker[tpe] = <<>>]
    IN  add(w1, IndexPack(w.next_id, time, NoSize, blobs), aged)

Count(f, k) == IF k \in DOMAIN f THEN f[k] ELSE 0

\* Repacker::add / Repacker::add_fast: the blob is read from its old pack and
\* appended to the open pack, which is saved when it is full.  add_fast
\* copies the stored bytes, add stores the blob compressed.
repacker_add(w, pack_id, blob, fast, time, aged) ==
    LET entry == IF fast THEN blob ELSE IndexBlob(blob.id, TRUE)
        key == <<pack_id, blob.id>>
        w1 == [w EXCEPT !.repacker[blob.tpe] = Append(@, entry),
                        !.handed = (key :> Count(w.handed, key) + 1) @@ @]
    IN  IF Len(w1.repacker[blob.tpe]) >= PackCapacity
        THEN save_pack(w1, blob.tpe, time, aged)
        ELSE w1

\* Repacker::finalize
repacker_finalize(w, tpe, time, aged) ==
    IF w.repacker[tpe] = <<>> THEN w ELSE save_pack(w, tpe, time, aged)

\* Faulty variant of used_ids_remove: the id is looked up but not removed.
used_ids_remove_kept(ids, id) == ids

\* used_ids.lock().unwrap().remove(&blob.id): the map after the call.
used_ids_remove(ids, id) == ids \ {id}

\* Faulty variant of delete_pack: the pack file is deleted at once.
delete_pack_now(w, pack) ==
    [w EXCEPT !.be_packs = Restrict(@, DOMAIN @ \ {pack.id})]

\* The closure delete_pack of prune_repository.
delete_pack(w, pack) ==
    IF pack.blob_type = "data"
    THEN [w EXCEPT !.data_packs_remove = @ \cup {pack.id}]
    ELSE [w EXCEPT !.tree_packs_remove = @ \cup {pack.id}]

\* "mark pack for removal" of prune_repository.
mark_pack(w, pack, time, aged) ==
    add_remove([w EXCEPT !.marked_at = (pack.id :> time) @@ @],
               into_index_pack_with_time(pack, time), aged)

\* Faulty variant of process_pack: a marked pack that is kept gets the time
\* of the plan, like a pack that is marked now.
process_pack_remarked(w, pack, o, time, aged) ==
    CASE pack.to_do = "Keep" -> add(w, into_index_pack(pack), aged)
      [] pack.to_do \in {"MarkDelete", "KeepMarked", "KeepMarkedAndCorrect"} ->
            IF o.instant_delete THEN delete_pack(w, pack) ELSE mark_pack(w, pack, time, aged)
      [] pack.to_do = "Recover" ->
            add([w EXCEPT !.marked_at = Restrict(@, DOMAIN @ \ {pack.id})],
                into_index_pack_with_time(pack, time), aged)
      [] pack.to_do = "Delete" -> delete_pack(w, pack)

\* The match of the worker closure for a pack that is not to be repacked.
process_pack(w, pack, o, time, aged) ==
    CASE pack.to_do = "Keep" -> add(w, into_index_pack(pack), aged)
      [] pack.to_do = "MarkDelete" ->
            IF o.instant_delete THEN delete_pack(w, pack) ELSE mark_pack(w, pack, time, aged)
      [] pack.to_do \in {"KeepMarked", "KeepMarkedAndCorrect"} ->
            IF o.instant_delete THEN delete_pack(w, pack)
            ELSE add_remove(w, into_index_pack_with_time(
                                  pack, IF pack.time # NoTime THEN pack.time ELSE time), aged)
      [] pack.to_do = "Recover" ->
            add([w EXCEPT !.marked_at = Restrict(@, DOMAIN @ \ {pack.id})],
                into_index_pack_with_time(pack, time), aged)
      [] pack.to_do = "Delete" -> delete_pack(w, pack)

\* Faulty variant of repack_blob: the test of the result of remove inverted.
repack_blob_inverted(w, pack, blob, o, clock, aged) ==
    IF blob.id \in w.used_ids
    THEN [w EXCEPT !.used_ids = @ \ {blob.id}]
    ELSE repacker_add(w, pack.id, blob, o.fast_repack, clock, aged)

\* One iteration of the blob loop of the Repack arm.
repack_blob(w, pack, blob, o, clock, aged) ==
    IF blob.id \notin w.used_ids
    THEN w
    ELSE repacker_add([w EXCEPT !.used_ids = used_ids_remove(@, blob.id)],
                      pack.id, blob, o.fast_repack, clock, aged)

\* Faulty variant of finish_repack: the old pack is added as a live pack.
finish_repack_live(w, pack, o, time, aged) ==
    IF o.instant_delete THEN delete_pack(w, pack)
    ELSE add(w, into_index_pack_with_time(pack, time), aged)

\* The end of the Repack arm.
finish_repack(w, pack, o, time, aged) ==
    IF o.instant_delete THEN delete_pack(w, pack) ELSE mark_pack(w, pack, time, aged)

\* ReadBackend::delete_list of pack files and of index files.
delete_packs(files, ids) == Restrict(files, DOMAIN files \ ids)
delete_indexes(files, ids) == Restrict(files, DOMAIN files \ ids)


\* ------------------------------------------------------------------------
\* Actions
\* ------------------------------------------------------------------------
\* The index files of the backend in the order `order` of their ids.
stream_index(order) ==
    [i \in 1..Len(order) |->
        [id |-> order[i], packs |-> be_index[order[i]].packs,
         packs_to_delete |-> be_index[order[i]].packs_to_delete]]

\* Faulty variant of after: the data packs are removed before the index files.
after_data_first(phase) ==
    CASE phase = "packs" -> "finalize_data"
      [] phase = "finalize_data" -> "finalize_indexer"
      [] phase = "finalize_indexer" -> "delete_data"
      [] phase = "delete_data" -> "delete_indexes"
      [] phase = "delete_indexes" -> "delete_tree"
      [] phase = "delete_tree" -> "done"

\* The statements of prune_repository after the worker loop, in program
\* order: the position that follows `phase`.
after(phase) ==
    CASE phase = "packs" -> "finalize_data"
      [] phase = "finalize_data" -> "finalize_indexer"
      [] phase = "finalize_indexer" -> "delete_indexes"
      [] phase = "delete_indexes" -> "delete_data"
      [] phase = "delete_data" -> "delete_tree"
      [] phase = "delete_tree" -> "done"

\* The error a failing backend call makes prune_repository return at `phase`.
failure(phase) ==
    CASE phase = "unreferenced" -> "SetupFailed"
      [] phase = "packs" -> "PackFailed"
      [] phase = "finalize_data" -> "RepackerFailed"
      [] phase = "finalize_indexer" -> "IndexerFailed"
      [] phase \in {"delete_indexes", "delete_data", "delete_tree"} -> "DeleteFailed"

\* Faulty variant of append_only: the config is not looked at.
append_only_ignored(cfg) == FALSE

\* The first statement of prune_repository.
append_only(cfg) == cfg.append_only

\* Faulty variant of early_delete: the option is not looked at.
early_delete_always(o, ids) == ids # {}

\* The condition of "remove old index files early if requested".
early_delete(o, ids) == ids # {} /\ o.early_delete_index

\* The condition of the removal of the old index files after finalize.
late_delete(o, ids) == ids # {} /\ ~o.early_delete_index

\* prune_repository returns: its locals are dropped.
Return(e) ==
    /\ pc' = IF e = "none" THEN "done" ELSE "error"
    /\ err' = e
    /\ LocalsCleared

\* Where the caller is after from_prune_options: it holds a plan, it got an
\* error, or the thread panicked in decide_repack (integer division by zero).
planned(e) ==
    IF e = "none" THEN "planned" ELSE IF e = "DivideByZero" THEN "panic" ELSE "error"

\* PrunePlan::from_prune_options with options taken from `options`.  After a
\* panic the options of the call are kept for reference.
PlanWith(options) ==
    /\ pc = "idle"
    /\ \E o \in options, order \in Orderings(DOMAIN be_index) :
          \E out \in from_prune_options(stream_index(order), snapshots, be_packs, now, o, config) :
             /\ plan' = out.plan
             /\ err' = out.err
             /\ pc' = planned(out.err)
             /\ opts' = IF out.err \in {"none", "DivideByZero"} THEN o ELSE NoOpts
    /\ UNCHANGED <<backend, elsewhere, now, locals, next_id, flushes, history>>

Plan == PlanWith(OptionSpace)

\* prune_repository up to the creation of the indexer and the repackers.
Start ==
    /\ pc = "planned"
    /\ plan' = NoPlan
    /\ IF append_only(config)
       THEN /\ Return("AppendOnly")
            /\ opts' = NoOpts
            /\ UNCHANGED warmed
       ELSE /\ warmed' = repack_packs(plan.index_files)
            /\ opts' = exec_opts(opts)
            /\ pc' = "unreferenced"
            /\ plan_time' = plan.time
            /\ unreferenced' = plan.existing_packs
            /\ used_ids' = plan.used_ids
            /\ packs' = all_packs(plan.index_files)
            /\ pending' = 1..Len(all_packs(plan.index_files))
            /\ indexes_remove' = {plan.index_files[i].id : i \in 1..Len(plan.index_files)}
            /\ indexer' = new_unindexed(now)
            /\ UNCHANGED <<err, working, repacker, data_packs_remove, tree_packs_remove>>
    /\ UNCHANGED <<backend, elsewhere, now, next_id, flushes, start, handed, written, new_packs,
                   marked_at>>

\* "mark unreferenced packs for deletion" with instant_delete: delete_list
\* removes the files one by one and may fail part way.
DeleteUnreferenced ==
    /\ pc = "unreferenced"
    /\ DOMAIN unreferenced # {}
    /\ opts.instant_delete
    /\ \E done \in SUBSET DOMAIN unreferenced :
          /\ be_packs' = delete_packs(be_packs, done)
          /\ IF done = DOMAIN unreferenced
             THEN /\ unreferenced' = EmptyMap
                  /\ UNCHANGED <<pc, err, plan_time, packs, pending, working, used_ids,
                                 indexer, repacker, indexes_remove, data_packs_remove,
                                 tree_packs_remove>>
             ELSE Return(failure(pc))
    /\ UNCHANGED <<be_index, snapshots, config, elsewhere, now, opts, plan, next_id, flushes, history>>

\* One iteration of the loop that adds the unreferenced packs to
\* packs_to_delete (in the order of the BTreeMap).
MarkUnreferenced ==
    /\ pc = "unreferenced"
    /\ DOMAIN unreferenced # {}
    /\ ~opts.instant_delete
    /\ LET id == CHOOSE x \in DOMAIN unreferenced : \A y \in DOMAIN unreferenced : x <= y
       IN  /\ \E a \in BOOLEAN :
                SetWorld(add_remove(World, IndexPack(id, now, unreferenced[id], <<>>),
                                    Aged(World, a)))
           /\ unreferenced' = Restrict(unreferenced, DOMAIN unreferenced \ {id})
    /\ UNCHANGED <<snapshots, config, elsewhere, now, pc, err, opts, plan, plan_time, packs, pending,
                   working, indexes_remove, start, warmed>>

\* "remove old index files early if requested", then the worker loop starts.
EarlyDelete ==
    /\ pc = "unreferenced"
    /\ DOMAIN unreferenced = {}
    /\ IF early_delete(opts, indexes_remove)
       THEN \E done \in SUBSET indexes_remove :
               /\ be_index' = delete_indexes(be_index, done)
               /\ IF done = indexes_remove
                  THEN /\ pc' = "packs"
                       /\ UNCHANGED <<err, locals>>
                  ELSE Return(failure(pc))
       ELSE /\ pc' = "packs"
            /\ UNCHANGED <<be_index, err, locals>>
    /\ UNCHANGED <<be_packs, snapshots, config, elsewhere, now, opts, plan, next_id, flushes, history>>


\* Variables no worker step changes.
worker_frame == <<snapshots, config, elsewhere, now, pc, err, opts, plan, plan_time, packs, unreferenced,
                  indexes_remove, start, warmed>>

\* A worker of the parallel loop takes pack i, which is not to be repacked,
\* and executes its arm of the match.
ProcessPack(i) ==
    /\ pc = "packs"
    /\ i \in pending
    /\ packs[i].to_do # "Repack"
    /\ IF packs[i].to_do = "Undecided"
       THEN /\ Return("Internal")
            /\ UNCHANGED <<be_index, be_packs, snapshots, config, elsewhere, now, opts, plan, next_id,
                           flushes, history>>
       ELSE /\ \E a \in BOOLEAN :
                 SetWorld(process_pack(World, packs[i], opts, plan_time, Aged(World, a)))
            /\ pending' = pending \ {i}
            /\ UNCHANGED <<working, worker_frame>>

\* A worker executes the next iteration of the blob loop of the Repack pack i
\* and, after the last blob, the end of the arm.
RepackStep(i) ==
    /\ pc = "packs"
    /\ i \in pending \cup DOMAIN working
    /\ packs[i].to_do = "Repack"
    /\ LET pack == packs[i]
           k == IF i \in DOMAIN working THEN working[i] ELSE 1
           last == k >= Len(pack.blobs)
       IN  /\ \E a1, a2 \in BOOLEAN :
                LET w1 == IF k <= Len(pack.blobs)
                          THEN repack_blob(World, pack, pack.blobs[k], opts, now,
                                           Aged(World, a1))
                          ELSE World
                    w2 == IF last
                          THEN finish_repack(w1, pack, opts, plan_time, Aged(w1, a2))
                          ELSE w1
                IN  SetWorld(w2)
           /\ pending' = pending \ {i}
           /\ working' = IF last THEN Restrict(working, DOMAIN working \ {i})
                         ELSE (i :> k + 1) @@ working
    /\ UNCHANGED worker_frame

\* Frame of the steps that follow the worker loop.
tail_frame == <<snapshots, config, elsewhere, now, err, opts, plan, plan_time, packs, pending, working,
                unreferenced, indexes_remove, start, warmed>>

\* tree_repacker.finalize()
FinalizeTree ==
    /\ pc = "packs"
    /\ pending = {}
    /\ DOMAIN working = {}
    /\ \E a \in BOOLEAN : SetWorld(repacker_finalize(World, "tree", now, Aged(World, a)))
    /\ pc' = after(pc)
    /\ UNCHANGED tail_frame

\* data_repacker.finalize()
FinalizeData ==
    /\ pc = "finalize_data"
    /\ \E a \in BOOLEAN : SetWorld(repacker_finalize(World, "data", now, Aged(World, a)))
    /\ pc' = after(pc)
    /\ UNCHANGED tail_frame

\* indexer.finalize()
FinalizeIndexer ==
    /\ pc = "finalize_indexer"
    /\ SetWorld(finalize(World))
    /\ pc' = after(pc)
    /\ UNCHANGED tail_frame

\* delete_list on `ids`: the files deleted before it returned, and whether
\* it returned Ok.
Deletions(ids) == {[done |-> d, ok |-> d = ids] : d \in SUBSET ids}

\* Frame of the three removals.
delete_frame == <<snapshots, config, elsewhere, now, opts, plan, next_id, flushes, history>>

\* "remove old index files first ..."
DeleteIndexes ==
    /\ pc = "delete_indexes"
    /\ \E r \in Deletions(IF late_delete(opts, indexes_remove) THEN indexes_remove ELSE {}) :
          /\ be_index' = delete_indexes(be_index, r.done)
          /\ IF r.ok THEN /\ pc' = after(pc)
                          /\ UNCHANGED <<err, locals>>
             ELSE Return(failure(pc))
    /\ UNCHANGED <<be_packs, delete_frame>>

\* "removing old data packs..."
DeleteData ==
    /\ pc = "delete_data"
    /\ \E r \in Deletions(data_packs_remove) :
          /\ be_packs' = delete_packs(be_packs, r.done)
          /\ IF r.ok THEN /\ pc' = after(pc)
                          /\ UNCHANGED <<err, locals>>
             ELSE Return(failure(pc))
    /\ UNCHANGED <<be_index, delete_frame>>

\* "removing old tree packs...", then Ok(())
DeleteTree ==
    /\ pc = "delete_tree"
    /\ \E r \in Deletions(tree_packs_remove) :
          /\ be_packs' = delete_packs(be_packs, r.done)
          /\ Return(IF r.ok THEN "none" ELSE failure(pc))
    /\ UNCHANGED <<be_index, delete_frame>>

\* A backend call of the setup, of a worker, of a repacker or of the indexer
\* fails: the `?` returns the error.
Fail ==
    /\ pc \in {"unreferenced", "packs", "finalize_data", "finalize_indexer"}
    /\ Return(failure(pc))
    /\ UNCHANGED <<backend, elsewhere, now, opts, plan, next_id, flushes, history>>

\* The steps of prune_repository.
Execute ==
    \/ Start
    \/ DeleteUnreferenced
    \/ MarkUnreferenced
    \/ EarlyDelete
    \/ \E i \in 1..Len(packs) : ProcessPack(i)
    \/ \E i \in 1..Len(packs) : RepackStep(i)
    \/ FinalizeTree
    \/ FinalizeData
    \/ FinalizeIndexer
    \/ DeleteIndexes
    \/ DeleteData
    \/ DeleteTree
    \/ Fail

Next == Plan \/ Execute

Spec == Init /\ [][Next]_vars


\* ------------------------------------------------------------------------
\* Successive prune runs
\* ------------------------------------------------------------------------
\* The options of the runs of SpecRuns: the planning options of BaseOpts,
\* keep_pack = 0.
RunOptionSpace ==
    {o \in OptionSpace :
        /\ \A f \in PlanningFields : o[f] = BaseOpts[f]
        /\ o.keep_pack = 0
        /\ ~o.early_delete_index}

\* The layouts SpecRuns starts from.
RunLayouts ==
    {l \in Layouts : \A p \in CatalogPacks : l[p] = DefaultPlacement(p) \/ l[p] = "unref"}

InitRuns ==
    /\ \E l \in RunLayouts :
          /\ be_index = LayoutIndex(l)
          /\ be_packs = LayoutPacks(l)
    /\ snapshots \in SnapshotSets
    /\ config = [append_only |-> FALSE, version |-> 2]
    /\ now = StartTime
    /\ InitRun

PlanRuns == PlanWith(RunOptionSpace)

\* The worker pool of the runs of SpecRuns has one thread: it takes the packs
\* in the order of the Vec.
IsNext(i) == \A j \in pending \cup DOMAIN working : i <= j

ExecuteRuns ==
    \/ Start
    \/ DeleteUnreferenced
    \/ MarkUnreferenced
    \/ EarlyDelete
    \/ \E i \in 1..Len(packs) : IsNext(i) /\ ProcessPack(i)
    \/ \E i \in 1..Len(packs) : IsNext(i) /\ RepackStep(i)
    \/ FinalizeTree
    \/ FinalizeData
    \/ FinalizeIndexer
    \/ DeleteIndexes
    \/ DeleteData
    \/ DeleteTree
    \/ Fail

\* After a call returned Ok, time passes, snapshots are forgotten or added
\* (their blobs are those the index knows) and prune is called again.
NewRun ==
    /\ pc = "done"
    /\ now < MaxTime
    /\ \E t \in now + 1..MaxTime : now' = t
    /\ snapshots' \in SnapshotSets
    /\ pc' = "idle"
    /\ err' = "none"
    /\ opts' = NoOpts
    /\ start' = [index |-> be_index, packs |-> be_packs]
    /\ warmed' = {}
    /\ handed' = EmptyMap
    /\ written' = {}
    /\ new_packs' = {}
    /\ UNCHANGED <<be_index, be_packs, config, elsewhere, plan, locals, next_id, flushes,
                   marked_at>>

NextRuns == PlanRuns \/ ExecuteRuns \/ NewRun

SpecRuns == InitRuns /\ [][NextRuns]_vars


\* ------------------------------------------------------------------------
\* The planner alone, on damaged repositories and with percentage limits
\* ------------------------------------------------------------------------
\* The options of the calls of SpecPlan.
PlanOptionSpace ==
    [max_repack : {Unlimited},
     max_unused : {Size(0), Unlimited, Percentage(50), Percentage(100)},
     keep_pack : {0},
     keep_delete : {2},
     instant_delete : BOOLEAN,
     early_delete_index : {FALSE},
     fast_repack : {FALSE},
     repack_uncompressed : BOOLEAN,
     repack_all : BOOLEAN,
     repack_cacheable_only : {FALSE},
     no_resize : {FALSE}]

\* The pack files of a repository in which at most one pack file was lost
\* or has another size than the one it was written with.
DamagedPacks(files) ==
    {files}
    \cup {Restrict(files, DOMAIN files \ {p}) : p \in DOMAIN files}
    \cup {[files EXCEPT ![p] = @ + 1] : p \in DOMAIN files}

InitPlan ==
    /\ \E l \in Layouts :
          /\ be_index = LayoutIndex(l)
          /\ be_packs \in DamagedPacks(LayoutPacks(l))
    /\ snapshots \in SnapshotSets
    /\ config \in [append_only : {FALSE}, version : {1, 2}]
    /\ now = StartTime
    /\ InitRun

PlanWide == PlanWith(PlanOptionSpace)

SpecPlan == InitPlan /\ [][PlanWide]_vars


\* ------------------------------------------------------------------------
\* Callers of the shared indexer (SharedIndexer = Arc<RwLock<Indexer>>)
\* ------------------------------------------------------------------------
\* The calls the callers make: call i adds or add_removes a pack with id i
\* and the blobs of pack 1 or pack 2 of the catalog.
AddMenu == {[blobs |-> CatalogBlobs(k), delete |-> d] : k \in {1, 2}, d \in BOOLEAN}
AddCalls == UNION {[1..n -> AddMenu] : n \in 1..MaxAdds}
call_pack(i) == IndexPack(i, 0, NoSize, adds[i].blobs)

\* No prune is running: its options, plan, locals and history are empty.
NoPrune ==
    /\ opts = NoOpts
    /\ plan = NoPlan
    /\ plan_time = NoTime
    /\ packs = <<>>
    /\ pending = {}
    /\ working = EmptyMap
    /\ used_ids = {}
    /\ unreferenced = EmptyMap
    /\ repacker = Repacker0
    /\ indexes_remove = {}
    /\ data_packs_remove = {}
    /\ tree_packs_remove = {}
    /\ flushes = 0
    /\ warmed = {}
    /\ handed = EmptyMap
    /\ new_packs = {}
    /\ marked_at = EmptyMap

\* An empty repository and an indexer just created, with or without the
\* membership set; the clock is in seconds.
InitIndexer ==
    /\ be_index = EmptyMap
    /\ be_packs = EmptyMap
    /\ snapshots = {}
    /\ config = [append_only |-> FALSE, version |-> 2]
    /\ now = 0
    /\ pc = "indexing"
    /\ err = "none"
    /\ NoPrune
    /\ next_id = FirstNewId
    /\ start = [index |-> be_index, packs |-> be_packs]
    /\ written = {}
    /\ indexer \in {indexer_new(now), new_unindexed(now)}
    /\ adds \in AddCalls
    /\ todo = DOMAIN adds
    /\ inside = EmptyMap
    /\ finalized = 0
    /\ NoSnapshotFiles
    /\ NoOtherRuns

\* What no call on the indexer changes.
indexer_frame ==
    <<snapshots, config, opts, plan, plan_time, packs, pending, working, unreferenced,
      indexes_remove, start, warmed, adds, snapshot_files, other_runs>>

\* Faulty variant of lock_free: the write lock is granted to everyone.
lock_ignored(holders) == TRUE

\* indexer.write(): granted when no other call holds the lock.
lock_free(holders) == holders = {}

\* The guard of indexer.write() is dropped: call i has returned.
Release(i) == Restrict(inside, DOMAIN inside \ {i})

\* Indexer::has
has(ix, id) == ix.indexed.some /\ id \in ix.indexed.ids

\* indexer.write().unwrap().add(pack) / add_remove(pack): the lock is taken
\* and add_with runs up to self.file.add(pack, delete).
AddAppend(i) ==
    /\ pc \in {"indexing", "finalized"}
    /\ i \in todo
    /\ lock_free(DOMAIN inside)
    /\ SetWorld([World EXCEPT !.indexer = append_pack(@, call_pack(i), adds[i].delete)])
    /\ todo' = todo \ {i}
    /\ inside' = (i :> "check") @@ inside
    /\ pc' = "indexing"
    /\ UNCHANGED <<now, err, finalized, indexer_frame>>

\* What the system clock may show when it is read next: it advanced, stood
\* still or was set back.
ClockReads == {t \in 0..MaxClock : (t - now) % ClockStep = 0}

\* add_with, "check if IndexFile needs to be saved": the clock is read; the
\* file is saved, or the call returns.
AddCheck(i) ==
    /\ pc \in {"indexing", "finalized"}
    /\ i \in DOMAIN inside
    /\ inside[i] = "check"
    /\ \E t \in ClockReads :
          /\ now' = t
          /\ IF must_save(indexer, elapsed(indexer.created, t) >= MAX_AGE)
             THEN /\ SetWorld(save(World))
                  /\ inside' = (i :> "reset") @@ inside
             ELSE /\ SetWorld(World)
                  /\ inside' = Release(i)
    /\ UNCHANGED <<pc, err, todo, finalized, indexer_frame>>

\* add_with: self.save()? fails, the call returns the error.
AddSaveFails(i) ==
    /\ pc \in {"indexing", "finalized"}
    /\ i \in DOMAIN inside
    /\ inside[i] = "check"
    /\ \E t \in ClockReads :
          /\ now' = t
          /\ must_save(indexer, elapsed(indexer.created, t) >= MAX_AGE)
    /\ SetWorld(World)
    /\ inside' = Release(i)
    /\ pc' = "error"
    /\ err' = "IndexerFailed"
    /\ UNCHANGED <<todo, finalized, indexer_frame>>

\* add_with: self.reset() after the save (the clock is read again), then the
\* call returns.
AddReset(i) ==
    /\ pc \in {"indexing", "finalized"}
    /\ i \in DOMAIN inside
    /\ inside[i] = "reset"
    /\ \E t \in ClockReads :
          /\ now' = t
          /\ SetWorld(reset([World EXCEPT !.now = t]))
    /\ inside' = Release(i)
    /\ UNCHANGED <<pc, err, todo, finalized, indexer_frame>>

\* indexer.write().unwrap().finalize()
FinalizeCall ==
    /\ pc \in {"indexing", "finalized"}
    /\ lock_free(DOMAIN inside)
    /\ finalized < MaxFinalize
    /\ \/ /\ SetWorld(finalize(World))
          /\ pc' = "finalized"
          /\ err' = err
       \/ /\ Len(indexer.file.packs) + Len(indexer.file.packs_to_delete) > 0
          /\ SetWorld(World)
          /\ pc' = "error"
          /\ err' = "IndexerFailed"
    /\ finalized' = finalized + 1
    /\ UNCHANGED <<now, todo, inside, indexer_frame>>

NextIndexer ==
    \/ \E i \in DOMAIN adds : AddAppend(i)
    \/ \E i \in DOMAIN adds : AddCheck(i)
    \/ \E i \in DOMAIN adds : AddSaveFails(i)
    \/ \E i \in DOMAIN adds : AddReset(i)
    \/ FinalizeCall

SpecIndexer == InitIndexer /\ [][NextIndexer]_vars


\* ------------------------------------------------------------------------
\* Snapshot files: latest_n, from_str, modify_sn and relevant_snapshots
\* ------------------------------------------------------------------------
\* DeleteOption.
NotSet == [kind |-> "NotSet", time |-> NoTime]
Never == [kind |-> "Never", time |-> NoTime]
After(t) == [kind |-> "After", time |-> t]

\* A SnapshotFile; tags are a StringList, a BTreeSet of strings.
SnapshotFile(id, time, hostname, tags, tree) ==
    [id |-> id, time |-> time, hostname |-> hostname, label |-> "", paths |-> {"/"},
     tags |-> tags, tree |-> tree, parent |-> 0, delete |-> NotSet]

\* The snapshots a source repository may hold: 2 and 3 were taken at the
\* same time on different hosts.
SnapshotMenu ==
    {SnapshotFile(1, 1, "a", {"x"}, 1), SnapshotFile(2, 2, "a", {}, 2),
     SnapshotFile(3, 2, "b", {"x"}, 3), SnapshotFile(4, 3, "b", {"x", "y"}, 1)}

\* SnapshotFile::clear_ids.
clear_ids(sn) == [sn EXCEPT !.id = 0, !.parent = 0]

\* A snapshot as the copy command saved it in the destination under id.
Copied(sn, id) == [clear_ids(sn) EXCEPT !.id = id]

\* The snapshots a destination may hold: copies of snapshots 1 and 3.
DestMenu == {Copied(sn, sn.id + 10) : sn \in {t \in SnapshotMenu : t.id \in {1, 3}}}

\* The filters of the callers.
Filters ==
    {[by |-> "all", value |-> ""], [by |-> "host", value |-> "a"],
     [by |-> "host", value |-> "b"], [by |-> "tag", value |-> "x"]}
predicate(f, sn) ==
    CASE f.by = "all" -> TRUE
      [] f.by = "host" -> sn.hostname = f.value
      [] f.by = "tag" -> f.value \in sn.tags

\* Ordering::cmp on times and impl Ord for SnapshotFile: the time only.
time_cmp(t1, t2) == IF t1 < t2 THEN "Less" ELSE IF t1 > t2 THEN "Greater" ELSE "Equal"
cmp_then_id(a, b) == IF a.time = b.time THEN time_cmp(a.id, b.id) ELSE time_cmp(a.time, b.time)
cmp(a, b) == time_cmp(a.time, b.time)

\* The comparison of latest_n_from_iter: decreasing time.
newest_first(s1, s2) == time_cmp(s2.time, s1.time)

\* Itertools::k_smallest_by with the comparison newest_first: the k smallest
\* items in ascending order; the order among items that compare Equal is not
\* specified, so every outcome.
k_smallest_by(k, items) ==
    LET m == Min(k, Len(items))
        chosen == {T \in SUBSET Range(items) : Cardinality(T) = m}
    IN  {v \in UNION {Orderings(T) : T \in chosen} :
            /\ \A i, j \in 1..m : i < j => newest_first(v[i], v[j]) # "Greater"
            /\ \A x \in Range(items) \ Range(v) :
                  \A i \in 1..m : newest_first(v[i], x) # "Greater"}

\* SnapshotFile::iter_all_from_backend: the stream of the backend, filtered.
iter_all_from_backend(stream, f) == SelectSeq(stream, LAMBDA sn : predicate(f, sn))

latest_n_from_iter(n, iter) == k_smallest_by(n + 1, iter)

\* Results.
Ok(sn) == [ok |-> TRUE, sn |-> sn]
Err(kind, n) == [ok |-> FALSE, err |-> kind, n |-> n]

\* Faulty variant of found: the last element is taken when len = n.
found_at_len(len, n) == len >= n

\* latest_n: `len > n`.
found(len, n) == len > n

\* SnapshotFile::latest_n with the vector latest_n_from_iter returned.
latest_n(snaps, n) ==
    IF found(Len(snaps), n) /\ snaps # <<>>
    THEN Ok(snaps[Len(snaps)])
    ELSE IF n = 0 THEN Err("NoSnapshotsFound", 0) ELSE Err("NoSnapshotsFoundForLatestN", n)

\* Strings are sequences of characters.
Digits == <<"0", "1", "2", "3", "4", "5", "6", "7", "8", "9">>
digit(c) == (CHOOSE d \in 1..Len(Digits) : Digits[d] = c) - 1
to_string(n) == IF n < Len(Digits) THEN <<Digits[n + 1]>> ELSE <<Digits[(n \div 10) + 1], Digits[(n % 10) + 1]>>
Str_latest == <<"l", "a", "t", "e", "s", "t">>
Tilde == <<"~">>

\* str::strip_prefix.
strip_prefix(s, prefix) ==
    IF Len(s) >= Len(prefix) /\ SubSeq(s, 1, Len(prefix)) = prefix
    THEN [some |-> TRUE, rest |-> SubSeq(s, Len(prefix) + 1, Len(s))]
    ELSE [some |-> FALSE, rest |-> <<>>]

RECURSIVE decimal(_)
decimal(s) == IF s = <<>> THEN 0 ELSE 10 * decimal(SubSeq(s, 1, Len(s) - 1)) + digit(s[Len(s)])

\* str::parse::<usize>: an optional `+`, then one or more digits (the
\* strings of the model are too short to overflow).
parse_usize(s) ==
    LET body == IF s # <<>> /\ s[1] = "+" THEN Tail(s) ELSE s
    IN  IF body = <<>> \/ \E k \in 1..Len(body) : body[k] \notin Range(Digits)
        THEN [ok |-> FALSE, value |-> 0]
        ELSE [ok |-> TRUE, value |-> decimal(body)]

\* The length of an id in hexadecimal.
HEX_LEN == 64

\* impl FromStr for SnapshotRequest.
Latest(n) == [ok |-> TRUE, request |-> "Latest", n |-> n, id |-> <<>>]
StartsWith(s) == [ok |-> TRUE, request |-> "StartsWith", n |-> 0, id |-> s]
Id(s) == [ok |-> TRUE, request |-> "Id", n |-> 0, id |-> s]
InvalidInput == [ok |-> FALSE, request |-> "InvalidInput", n |-> 0, id |-> <<>>]
request_from_str(s) ==
    LET latest == strip_prefix(s, Str_latest)
        index == strip_prefix(latest.rest, Tilde)
        n == parse_usize(index.rest)
    IN  IF latest.some
        THEN IF latest.rest = <<>> THEN Latest(0)
             ELSE IF ~index.some THEN InvalidInput
             ELSE IF ~n.ok THEN InvalidInput
             ELSE Latest(n.value)
        ELSE IF Len(s) < HEX_LEN THEN StartsWith(s) ELSE Id(s)

\* The largest N of the latest~N the callers ask for.
MaxN == 4

\* The strings the callers pass to from_str.
StrMenu ==
    {Str_latest} \cup {Str_latest \o Tilde \o to_string(n) : n \in 0..MaxN}
    \cup {Str_latest \o Tilde, Str_latest \o <<"1">>, Str_latest \o Tilde \o <<"x">>,
          Str_latest \o Tilde \o <<"-", "1">>, Str_latest \o Tilde \o <<"+", "1">>,
          Str_latest \o Tilde \o <<"0", "1">>, Str_latest \o Tilde \o <<"1", "0">>,
          <<"l", "a", "z", "t", "e", "t", "~", "1">>, <<"a", "b">>}

\* StringList::add_all and StringList::remove_all on a Vec<StringList>.
add_all(tags, lists) == tags \cup UNION Range(lists)
remove_all(tags, lists) == tags \ UNION Range(lists)

\* Faulty variant of set_tags: the old tags are not taken out first.
set_tags_extending(sn, lists) ==
    LET tags == add_all(sn.tags, lists)
    IN  [sn |-> [sn EXCEPT !.tags = tags], changed |-> sn.tags # tags]

\* SnapshotFile::set_tags, add_tags and remove_tags: the snapshot after the
\* call and whether the tags differ from the tags before.
set_tags(sn, lists) ==
    LET tags == add_all({}, lists)
    IN  [sn |-> [sn EXCEPT !.tags = tags], changed |-> sn.tags # tags]
add_tags(sn, lists) ==
    LET tags == add_all(sn.tags, lists)
    IN  [sn |-> [sn EXCEPT !.tags = tags], changed |-> sn.tags # tags]
remove_tags(sn, lists) ==
    LET tags == remove_all(sn.tags, lists)
    IN  [sn |-> [sn EXCEPT !.tags = tags], changed |-> sn.tags # tags]

\* Option<DeleteOption>.
NoDelete == [some |-> FALSE, value |-> NotSet]
SomeDelete(d) == [some |-> TRUE, value |-> d]

\* SnapshotFile::modify_sn: the snapshot after the call and the flag
\* `changed`; the call returns Some(snapshot) when the flag is set.
modify_sn(sn, set, add_lists, remove, delete) ==
    LET s1 == IF set # <<>> THEN set_tags(sn, set) ELSE [sn |-> sn, changed |-> FALSE]
        s2 == add_tags(s1.sn, add_lists)
        s3 == remove_tags(s2.sn, remove)
        tags_changed == s1.changed \/ s2.changed \/ s3.changed
    IN  IF delete.some /\ s3.sn.delete # delete.value
        THEN [sn |-> [s3.sn EXCEPT !.delete = delete.value], changed |-> TRUE]
        ELSE [sn |-> s3.sn, changed |-> tags_changed]

\* The tag lists and delete options the callers pass.
TagLists == {<<>>, <<{}>>, <<{"x"}>>, <<{"y"}>>, <<{"x"}, {"y"}>>}
DeleteMenu == {NoDelete, SomeDelete(NotSet), SomeDelete(Never), SomeDelete(After(1))}

\* Faulty variant of contains: nothing is ever found.
contains_never(set, sn) == FALSE

\* BTreeSet<SnapshotFile>::contains: an element that compares Equal.
contains(set, sn) == \E d \in set : cmp(d, sn) = "Equal"

\* relevant_snapshots: the snapshots of snaps with `relevant` set.
relevant_snapshots(snaps, dest, f) ==
    LET snapshots_dest == {d \in dest : predicate(f, d)}
    IN  {sn \in snaps : ~contains(snapshots_dest, sn)}

\* A source and a destination repository with some snapshots; the behaviour
\* is one call on them.
InitSnapshots ==
    /\ be_index = EmptyMap
    /\ be_packs = EmptyMap
    /\ snapshots = {}
    /\ config = [append_only |-> FALSE, version |-> 2]
    /\ now = 0
    /\ pc = "snapshots"
    /\ err = "none"
    /\ NoPrune
    /\ next_id = FirstNewId
    /\ start = [index |-> be_index, packs |-> be_packs]
    /\ written = {}
    /\ indexer = Indexer0
    /\ NoIndexerCalls
    /\ sn_store \in SUBSET SnapshotMenu
    /\ sn_dest \in SUBSET DestMenu
    /\ sn_call = NoCall
    /\ sn_result = NoCall
    /\ NoOtherRuns

\* What no call on snapshot files changes.
snapshot_frame ==
    <<backend, now, err, opts, plan, locals, next_id, flushes, history, indexer_calls,
      sn_store, sn_dest, other_runs>>

\* SnapshotFile::latest_n(be, predicate, p, n): the backend streams the
\* snapshots in any order.
LatestN ==
    /\ pc = "snapshots"
    /\ \E n \in 0..MaxN, f \in Filters, stream \in Orderings(sn_store) :
           \E snaps \in latest_n_from_iter(n, iter_all_from_backend(stream, f)) :
               /\ pc' = "returned"
               /\ sn_call' = [op |-> "latest_n", n |-> n, filter |-> f, stream |-> stream]
               /\ sn_result' = latest_n(snaps, n)
               /\ UNCHANGED snapshot_frame

\* SnapshotFile::from_str(be, string, predicate, p); from_id and
\* from_backend look the id up in the backend and are left to it.
FromStr ==
    /\ pc = "snapshots"
    /\ \E s \in StrMenu, f \in Filters, stream \in Orderings(sn_store) :
           LET request == request_from_str(s)
           IN  /\ pc' = "returned"
               /\ sn_call' = [op |-> "from_str", string |-> s, filter |-> f, stream |-> stream]
               /\ IF ~request.ok
                  THEN sn_result' = Err("InvalidInput", 0)
                  ELSE IF request.request = "Latest"
                  THEN \E snaps \in latest_n_from_iter(request.n, iter_all_from_backend(stream, f)) :
                          sn_result' = latest_n(snaps, request.n)
                  ELSE sn_result' = [ok |-> TRUE, find_id |-> request.id]
               /\ UNCHANGED snapshot_frame

\* modify_sn on a snapshot of the repository.
ModifySn ==
    /\ pc = "snapshots"
    /\ \E sn \in sn_store, set \in TagLists, add_lists \in TagLists, remove \in TagLists, delete \in DeleteMenu :
           LET modified == modify_sn(sn, set, add_lists, remove, delete)
           IN  /\ pc' = "returned"
               /\ sn_call' = [op |-> "modify_sn", sn |-> sn, set |-> set, add |-> add_lists,
                              remove |-> remove, delete |-> delete]
               /\ sn_result' = [some |-> modified.changed, sn |-> modified.sn]
               /\ UNCHANGED snapshot_frame

\* relevant_snapshots on the snapshots of the source that pass the filter.
RelevantSnapshots ==
    /\ pc = "snapshots"
    /\ \E f \in Filters :
           LET snaps == {sn \in sn_store : predicate(f, sn)}
           IN  /\ pc' = "returned"
               /\ sn_call' = [op |-> "relevant_snapshots", filter |-> f, snaps |-> snaps]
               /\ sn_result' = [relevant |-> relevant_snapshots(snaps, sn_dest, f)]
               /\ UNCHANGED snapshot_frame

NextSnapshots ==
    \/ LatestN
    \/ FromStr
    \/ ModifySn
    \/ RelevantSnapshots

SpecSnapshots == InitSnapshots /\ [][NextSnapshots]_vars


\* ------------------------------------------------------------------------
\* Copy: relevant_snapshots, then copy, from a source S to a destination D.
\* The backend variables are those of D; S is sn_store and copy_run.src.
\* ------------------------------------------------------------------------
\* Number of copy runs in a behaviour.
MaxCopies == 2

\* The snapshots S may hold: trees 1 and 2, two of them of the same time and
\* one with a parent.
CopyMenu ==
    {SnapshotFile(1, 1, "a", {}, 1),
     [SnapshotFile(2, 2, "a", {}, 2) EXCEPT !.parent = 1],
     SnapshotFile(3, 2, "b", {"x"}, 1)}

\* What D may hold when the model starts: nothing; the data pack 2; or the
\* packs 1 to 3 and a copy of snapshot 3.
DestPacks(ps) ==
    [index |-> IF ps = {} THEN EmptyMap
               ELSE 1 :> [packs |-> [k \in 1..Cardinality(ps) |->
                                        IndexPack(Ascending(ps)[k], 0, NoSize,
                                                  CatalogBlobs(Ascending(ps)[k]))],
                          packs_to_delete |-> <<>>],
     packs |-> [q \in ps |-> PackFileSize(CatalogBlobs(q))]]
DestMenuOfCopy ==
    {[files |-> DestPacks({}), snapshots |-> {}],
     [files |-> DestPacks({2}), snapshots |-> {}],
     [files |-> DestPacks({1, 2, 3}),
      snapshots |-> {Copied(sn, sn.id + 10) : sn \in {t \in CopyMenu : t.id = 3}}]}

\* The blobs S can serve: all, or all but data blob 6.
SourceMenu == {BlobIds, BlobIds \ {6}}

\* The index of D as loaded when the call starts: has_tree / has_data.
index_dest_of(ix) == UNION {BlobsOf(q) : q \in Listed(ix)}

\* The locals of a copy call on the snapshots sns, and its history.
CopyLocals(run, src, sns, dest_ids, dest_sns) ==
    [run |-> run, src |-> src,
     snaps |-> {clear_ids(sn) : sn \in sns},
     roots |-> {sn.tree : sn \in sns},
     snap_trees |-> {sn.tree : sn \in sns},
     queue |-> {}, visited |-> {}, items |-> {},
     index_dest |-> dest_ids,
     read |-> EmptyMap, packed |-> EmptyMap,
     finalized |-> {},
     dest_start |-> dest_sns]

InitCopy ==
    /\ \E d \in DestMenuOfCopy :
          /\ be_index = d.files.index
          /\ be_packs = d.files.packs
          /\ sn_dest = d.snapshots
    /\ snapshots = {}
    /\ config = [append_only |-> FALSE, version |-> 2]
    /\ now = 0
    /\ pc = "copy_idle"
    /\ err = "none"
    /\ NoPrune
    /\ next_id = FirstNewId
    /\ start = [index |-> be_index, packs |-> be_packs]
    /\ written = {}
    /\ indexer = Indexer0
    /\ NoIndexerCalls
    /\ sn_store \in SUBSET CopyMenu \ {{}}
    /\ sn_call = NoCall
    /\ sn_result = NoCall
    /\ \E src \in SourceMenu : copy_run = CopyLocals(1, src, {}, {}, {})
    /\ restore_run = NoCall
    /\ repair_run = NoCall

\* What copy leaves alone.
copy_frame ==
    <<snapshots, config, now, opts, plan, plan_time, packs, pending, working, unreferenced,
      indexes_remove, start, warmed, indexer_calls, sn_store, sn_call, sn_result,
      restore_run, repair_run>>

\* The filter that accepts every snapshot.
AllSnapshots == [by |-> "all", value |-> ""]

\* Faulty variant of must_copy: the index of D is not asked.
must_copy_always(index_dest, id) == TRUE

\* `!index_dest.has_tree(id)` / `!index_dest.has_data(id)`.
must_copy(index_dest, id) == id \notin index_dest

\* Packer::add: the blob is appended to the open pack of its type unless the
\* indexer or the open pack holds it already; a full pack is saved.
packer_add(w, id) ==
    LET tpe == BlobTpe(id)
        w1 == [w EXCEPT !.repacker[tpe] = Append(@, IndexBlob(id, TRUE))]
    IN  IF has(w.indexer, id) \/ \E k \in 1..Len(w.repacker[tpe]) : w.repacker[tpe][k].id = id
        THEN w
        ELSE IF Len(w1.repacker[tpe]) >= PackCapacity
        THEN save_pack(w1, tpe, w.now, FALSE)
        ELSE w1

\* The body of the three closures of copy: a blob D lacks is read from S and
\* added to the packer of its type.
copy_blob(c, w, id) ==
    IF must_copy(c.index_dest, id)
    THEN [c |-> [c EXCEPT !.read = (id :> Count(c.read, id) + 1) @@ @,
                          !.packed = (id :> Count(c.packed, id) + 1) @@ @],
          w |-> packer_add(w, id)]
    ELSE [c |-> c, w |-> w]

\* `index.get_tree(id).unwrap()` / `index.get_data(id).unwrap()` panics.
unwrap_panics(c, id) == must_copy(c.index_dest, id) /\ id \notin c.src

\* The blob of work item <<tree, node, position>>.
item_blob(item) ==
    LET node == TreeNodes(item[1])[item[2]]
    IN  IF node.node_type = "dir" THEN node.subtree ELSE node.content[item[3]]
\* The work items of the nodes of tree t.
tree_items(t) ==
    {item \in {t} \X (1..Len(TreeNodes(t))) \X (0..2) :
        IF TreeNodes(t)[item[2]].node_type = "dir" THEN item[3] = 0
        ELSE item[3] \in 1..Len(TreeNodes(t)[item[2]].content)}

\* The caller: relevant_snapshots, and copy on the relevant snapshots.
CopyStart ==
    /\ pc = "copy_idle"
    /\ LET relevant == relevant_snapshots(sn_store, sn_dest, AllSnapshots)
       IN  copy_run' = CopyLocals(copy_run.run, copy_run.src, relevant,
                                  index_dest_of(be_index), sn_dest)
    /\ indexer' = indexer_new(now)
    /\ repacker' = Repacker0
    /\ pc' = "copy_roots"
    /\ UNCHANGED <<be_index, be_packs, next_id, flushes, written, new_packs, used_ids, handed,
                   marked_at, data_packs_remove, tree_packs_remove, err, sn_dest, copy_frame>>

\* snap_trees.par_iter().try_for_each: one root.
CopyRoot ==
    /\ pc = "copy_roots"
    /\ \E id \in copy_run.snap_trees :
          IF unwrap_panics(copy_run, id)
          THEN /\ pc' = "panic"
               /\ err' = "UnwrapNone"
               /\ UNCHANGED <<copy_run, backend, locals, next_id, flushes, history, sn_dest, copy_frame>>
          ELSE LET r == copy_blob([copy_run EXCEPT !.snap_trees = @ \ {id}], World, id)
               IN  /\ copy_run' = r.c
                   /\ SetWorld(r.w)
                   /\ UNCHANGED <<pc, err, sn_dest, copy_frame>>

\* TreeStreamerOnce::new, after every root was handled.
CopyStreamNew ==
    /\ pc = "copy_roots"
    /\ copy_run.snap_trees = {}
    /\ copy_run' = [copy_run EXCEPT !.queue = copy_run.roots]
    /\ pc' = "copy_stream"
    /\ UNCHANGED <<err, backend, locals, next_id, flushes, history, sn_dest, copy_frame>>

\* The tree streamer yields a tree it has not yielded yet; its nodes become
\* work of the parallel iterators.
CopyTree ==
    /\ pc = "copy_stream"
    /\ \E t \in copy_run.queue :
          LET subs == {n.subtree : n \in {m \in Range(TreeNodes(t)) : m.node_type = "dir"}}
              seen == copy_run.visited \cup {t}
          IN  copy_run' = [copy_run EXCEPT !.visited = seen,
                                           !.queue = (@ \cup subs) \ seen,
                                           !.items = @ \cup tree_items(t)]
    /\ UNCHANGED <<pc, err, backend, locals, next_id, flushes, history, sn_dest, copy_frame>>

\* One content blob of a File node or the subtree of a Dir node.
CopyItem ==
    /\ pc = "copy_stream"
    /\ \E item \in copy_run.items :
          IF unwrap_panics(copy_run, item_blob(item))
          THEN /\ pc' = "panic"
               /\ err' = "UnwrapNone"
               /\ UNCHANGED <<copy_run, backend, locals, next_id, flushes, history, sn_dest, copy_frame>>
          ELSE LET r == copy_blob([copy_run EXCEPT !.items = @ \ {item}], World, item_blob(item))
               IN  /\ copy_run' = r.c
                   /\ SetWorld(r.w)
                   /\ UNCHANGED <<pc, err, sn_dest, copy_frame>>

\* Faulty variant of copy_after: the snapshots are saved before the packers
\* and the indexer are finalized.
copy_after_save_first(phase) ==
    CASE phase = "copy_stream" -> "copy_save"
      [] phase = "copy_save" -> "copy_finalize_data"
      [] phase = "copy_finalize_data" -> "copy_finalize_tree"
      [] phase = "copy_finalize_tree" -> "copy_finalize_indexer"
      [] phase = "copy_finalize_indexer" -> "copied"

\* The order of the statements of copy after the blobs.
copy_after(phase) ==
    CASE phase = "copy_stream" -> "copy_finalize_data"
      [] phase = "copy_finalize_data" -> "copy_finalize_tree"
      [] phase = "copy_finalize_tree" -> "copy_finalize_indexer"
      [] phase = "copy_finalize_indexer" -> "copy_save"
      [] phase = "copy_save" -> "copied"

\* Both parallel loops are through.
CopyStreamDone ==
    /\ pc = "copy_stream"
    /\ copy_run.queue = {}
    /\ copy_run.items = {}
    /\ pc' = copy_after(pc)
    /\ UNCHANGED <<copy_run, err, backend, locals, next_id, flushes, history, sn_dest, copy_frame>>

\* data_packer.finalize() and tree_packer.finalize().
CopyFinalizePacker ==
    /\ pc \in {"copy_finalize_data", "copy_finalize_tree"}
    /\ LET tpe == IF pc = "copy_finalize_data" THEN "data" ELSE "tree"
       IN  /\ SetWorld(repacker_finalize(World, tpe, now, FALSE))
           /\ copy_run' = [copy_run EXCEPT !.finalized = @ \cup {tpe}]
    /\ pc' = copy_after(pc)
    /\ UNCHANGED <<err, sn_dest, copy_frame>>

\* indexer.write().unwrap().finalize()
CopyFinalizeIndexer ==
    /\ pc = "copy_finalize_indexer"
    /\ SetWorld(finalize(World))
    /\ copy_run' = [copy_run EXCEPT !.finalized = @ \cup {"indexer"}]
    /\ pc' = copy_after(pc)
    /\ UNCHANGED <<err, sn_dest, copy_frame>>

\* be_dest.save_list(snaps.iter(), p)
CopySave ==
    /\ pc = "copy_save"
    /\ sn_dest' = sn_dest \cup {[sn EXCEPT !.id = 20 * copy_run.run + sn.time * 2 + sn.tree] :
                                  sn \in copy_run.snaps}
    /\ pc' = copy_after(pc)
    /\ UNCHANGED <<copy_run, err, backend, locals, next_id, flushes, history, copy_frame>>

\* A blob read, a packer add, the tree streamer or a finalize fails: copy
\* returns the error.
CopyFails ==
    /\ pc \in {"copy_roots", "copy_stream", "copy_finalize_data", "copy_finalize_tree",
               "copy_finalize_indexer"}
    /\ pc \in {"copy_roots", "copy_stream"} =>
          \E id \in copy_run.snap_trees \cup copy_run.queue
                    \cup {item_blob(i) : i \in copy_run.items} :
              id \in copy_run.queue \/ must_copy(copy_run.index_dest, id)
    /\ pc' = "error"
    /\ err' = "CopyFailed"
    /\ UNCHANGED <<copy_run, backend, locals, next_id, flushes, history, sn_dest, copy_frame>>

\* save_list fails: some of the snapshots may have been saved.
CopySaveFails ==
    /\ pc = "copy_save"
    /\ copy_run.snaps # {}
    /\ \E some \in SUBSET copy_run.snaps :
          /\ some # copy_run.snaps
          /\ sn_dest' = sn_dest \cup {[sn EXCEPT !.id = 20 * copy_run.run + sn.time * 2 + sn.tree] :
                                        sn \in some}
    /\ pc' = "error"
    /\ err' = "SaveFailed"
    /\ UNCHANGED <<copy_run, backend, locals, next_id, flushes, history, copy_frame>>

\* The caller copies the same snapshots again: D is opened anew.
CopyAgain ==
    /\ pc = "copied"
    /\ copy_run.run < MaxCopies
    /\ copy_run' = CopyLocals(copy_run.run + 1, copy_run.src, {}, {}, {})
    /\ pc' = "copy_idle"
    /\ UNCHANGED <<err, backend, locals, next_id, flushes, history, sn_dest, copy_frame>>

NextCopy ==
    \/ CopyStart
    \/ CopyRoot
    \/ CopyStreamNew
    \/ CopyTree
    \/ CopyItem
    \/ CopyStreamDone
    \/ CopyFinalizePacker
    \/ CopyFinalizeIndexer
    \/ CopySave
    \/ CopyFails
    \/ CopySaveFails
    \/ CopyAgain

SpecCopy == InitCopy /\ [][NextCopy]_vars


\* ------------------------------------------------------------------------
\* Restore: RestorePlan::add_file and restore_contents
\* ------------------------------------------------------------------------
\* "The maximum size of pack-part which is read at once from the backend."
LIMIT_PACK_READ == 40 * 1024 * 1024
\* BlobLocation::data_length: "crypto overhead".
CryptoOverhead == 32

\* The blobs of the packs a restore reads: small ones, or 16 MiB or 20 MiB
\* each.  Blob 4 is stored compressed.
SizeMenu == {"small", "16MiB", "20MiB"}
packed_length(sz, b) ==
    CASE sz = "small" -> CryptoOverhead + b
      [] sz = "16MiB" -> 16 * 1024 * 1024
      [] sz = "20MiB" -> 20 * 1024 * 1024

\* repo.get_index_entry(id): pack 2 holds the blobs 3, 4, 5 one after the
\* other, pack 3 holds blob 6.
get_index_entry(sz, b) ==
    [pack |-> IF b = 6 THEN 3 ELSE 2,
     offset |-> CASE b = 4 -> packed_length(sz, 3)
                  [] b = 5 -> packed_length(sz, 3) + packed_length(sz, 4)
                  [] OTHER -> 0,
     length |-> packed_length(sz, b),
     uncompressed_length |-> IF b = 4 THEN packed_length(sz, b) + 5 ELSE NoSize]

BlobLocation(ie) ==
    [offset |-> ie.offset, length |-> ie.length, uncompressed_length |-> ie.uncompressed_length]

\* BlobLocation::data_length
data_length(bl) ==
    IF bl.uncompressed_length = NoSize THEN bl.length - CryptoOverhead
    ELSE bl.uncompressed_length

FileLocation(file_idx, file_start, matches) ==
    [file_idx |-> file_idx, file_start |-> file_start, matches |-> matches]

\* A File node and what the destination holds at its path: `open` when
\* get_matching_file finds a file of the node's size, `fits` when its mtime is
\* that of the node, `matching` the positions of the content whose bytes in
\* the existing file are those of the blob.
RestoreFile(content, open, fits, matching) ==
    [content |-> content, open |-> open, fits |-> fits, matching |-> matching]
NewFile(content) == RestoreFile(content, FALSE, FALSE, {})

\* file.meta.size
meta_size(sz, file) ==
    SeqSum([j \in 1..Len(file.content) |->
               data_length(BlobLocation(get_index_entry(sz, file.content[j])))])

RestorePlan0 ==
    [names |-> <<>>, file_lengths |-> <<>>, r |-> EmptyMap, restore_size |-> 0, matched_size |-> 0]

\* The loop of add_file over file.content from position j on.
RECURSIVE add_content(_, _, _, _, _, _)
add_content(p, sz, file, file_idx, j, file_pos) ==
    IF j > Len(file.content)
    THEN [p EXCEPT !.file_lengths = Append(@, file_pos)]
    ELSE LET ie == get_index_entry(sz, file.content[j])
             bl == BlobLocation(ie)
             matches == file.open /\ j \in file.matching
             fl == FileLocation(file_idx, file_pos, matches)
             r1 == IF <<ie.pack, bl>> \in DOMAIN p.r
                   THEN [p.r EXCEPT ![<<ie.pack, bl>>] = Append(@, fl)]
                   ELSE (<<ie.pack, bl>> :> <<fl>>) @@ p.r
             p1 == [p EXCEPT !.r = r1,
                             !.matched_size = IF matches THEN @ + data_length(bl) ELSE @,
                             !.restore_size = IF matches THEN @ ELSE @ + data_length(bl)]
         IN  add_content(p1, sz, file, file_idx, j + 1, file_pos + data_length(bl))

\* RestorePlan::add_file: the plan after the call and the AddFileResult.
\* file_idx counts from 1 here.
add_file(p, sz, file, name, ignore_mtime) ==
    IF meta_size(sz, file) = 0 /\ file.open
    THEN [p |-> p, result |-> "Existing"]
    ELSE IF ~ignore_mtime /\ file.open /\ file.fits
    THEN [p |-> [p EXCEPT !.matched_size = @ + meta_size(sz, file)], result |-> "Existing"]
    ELSE [p |-> add_content([p EXCEPT !.names = Append(@, name)], sz, file,
                            Len(p.names) + 1, 1, 0),
          result |-> IF file.open /\ (1..Len(file.content)) \subseteq file.matching
                     THEN "Verified" ELSE "Modify"]

\* The plan collect_and_prepare builds from the File nodes of the stream.
RECURSIVE add_files(_, _, _, _, _)
add_files(p, sz, files, i, ignore_mtime) ==
    IF i > Len(files) THEN p
    ELSE add_files(add_file(p, sz, files[i], i, ignore_mtime).p, sz, files, i + 1, ignore_mtime)

\* Ord of (PackId, BlobLocation), the key of RestoreInfo.
key_less(k1, k2) ==
    LET a == <<k1[1], k1[2].offset, k1[2].length, k1[2].uncompressed_length>>
        b == <<k2[1], k2[2].offset, k2[2].length, k2[2].uncompressed_length>>
    IN  \E n \in 1..4 : a[n] < b[n] /\ \A m \in 1..(n - 1) : a[m] = b[m]

\* restore_info.into_iter(): the keys in ascending order.
RECURSIVE sorted_keys(_)
sorted_keys(K) ==
    IF K = {} THEN <<>>
    ELSE LET k == CHOOSE x \in K : \A y \in K \ {x} : key_less(x, y)
         IN  <<k>> \o sorted_keys(K \ {k})

\* Option<(file_idx, file_start, length)>
NoFile == [some |-> FALSE]
FromFile(fl, bl) ==
    [some |-> TRUE, file_idx |-> fl.file_idx, file_start |-> fl.file_start,
     length |-> data_length(bl)]

\* SelectSeq with the predicate written out.
RECURSIVE unmatched(_)
unmatched(fls) ==
    IF fls = <<>> THEN <<>>
    ELSE (IF Head(fls).matches THEN <<>> ELSE <<Head(fls)>>) \o unmatched(Tail(fls))

\* The closure of `.map` in restore_contents: (pack, offset, length,
\* from_file, name_dests); `parts` keeps the blobs an item was made of.
blob_item(k, fls) ==
    LET bl == k[2]
        hits == {n \in 1..Len(fls) : fls[n].matches}
        from_file == IF hits = {} THEN NoFile
                     ELSE FromFile(fls[CHOOSE n \in hits : \A m \in hits : n <= m], bl)
        dests == unmatched(fls)
    IN  [pack |-> k[1], offset |-> bl.offset, length |-> bl.length, from_file |-> from_file,
         name_dests |-> [n \in 1..Len(dests) |->
                           [bl |-> bl, file_idx |-> dests[n].file_idx,
                            file_start |-> dests[n].file_start]],
         parts |-> <<[pack |-> k[1], bl |-> bl, from_file |-> from_file]>>]

\* Faulty variant of append_dests: the destinations of y are lost.
append_dests_lost(x_dests, y_dests) == x_dests

\* x.4.append(&mut y.4)
append_dests(x_dests, y_dests) == x_dests \o y_dests

\* The condition of the closure of `.coalesce`.
may_merge(x, y) ==
    /\ x.pack = y.pack
    /\ ~x.from_file.some
    /\ y.offset = x.offset + x.length
    /\ x.length + y.length < LIMIT_PACK_READ

merge(x, y) ==
    [x EXCEPT !.length = @ + y.length,
              !.name_dests = append_dests(@, y.name_dests),
              !.parts = @ \o y.parts]

\* Itertools::coalesce: x is the item carried along, rest what follows.
RECURSIVE coalesce_from(_, _)
coalesce_from(x, rest) ==
    IF rest = <<>> THEN <<x>>
    ELSE IF may_merge(x, Head(rest))
    THEN coalesce_from(merge(x, Head(rest)), Tail(rest))
    ELSE <<x>> \o coalesce_from(Head(rest), Tail(rest))
coalesce(items) == IF items = <<>> THEN <<>> ELSE coalesce_from(Head(items), Tail(items))

\* The Vec `blobs` of restore_contents.
blobs_of(p) ==
    LET keys == sorted_keys(DOMAIN p.r)
    IN  coalesce([n \in 1..Len(keys) |-> blob_item(keys[n], p.r[keys[n]])])


\* The File nodes of a snapshot and the destination they are restored to.
FileMenu ==
    {<<NewFile(<<3, 4, 5>>)>>,
     <<NewFile(<<3, 4>>), RestoreFile(<<4>>, TRUE, FALSE, {1})>>,
     <<RestoreFile(<<4, 4>>, TRUE, FALSE, {1})>>,
     <<NewFile(<<6, 3>>), NewFile(<<>>), NewFile(<<3>>)>>,
     <<NewFile(<<3, 5>>), RestoreFile(<<5>>, TRUE, TRUE, {1})>>,
     <<NewFile(<<3, 4>>), NewFile(<<3, 4>>)>>}

\* restore_contents before it is called.
RestoreContents0(sz, files, verify_existing) ==
    [op |-> "restore_contents", sz |-> sz, files |-> files, verify_existing |-> verify_existing,
     plan |-> RestorePlan0, blobs |-> <<>>, sizes |-> <<>>, holders |-> {},
     fetched |-> {}, reads |-> EmptyMap, writers |-> EmptyMap,
     set_length |-> EmptyMap, writes |-> EmptyMap]

\* Nothing but a restore happens.
NoBackendRun ==
    /\ be_index = EmptyMap
    /\ be_packs = EmptyMap
    /\ snapshots = {}
    /\ config = [append_only |-> FALSE, version |-> 2]
    /\ now = 0
    /\ err = "none"
    /\ NoPrune
    /\ next_id = FirstNewId
    /\ start = [index |-> be_index, packs |-> be_packs]
    /\ written = {}
    /\ indexer = Indexer0
    /\ NoIndexerCalls
    /\ NoSnapshotFiles

InitRestoreContents ==
    /\ NoBackendRun
    /\ pc = "restore_collect"
    /\ \E sz \in SizeMenu : \E files \in FileMenu : \E verify_existing \in BOOLEAN :
          restore_run = RestoreContents0(sz, files, verify_existing)
    /\ copy_run = NoCall
    /\ repair_run = NoCall

\* What restore leaves alone.
restore_frame ==
    <<backend, now, err, opts, plan, locals, next_id, flushes, history, indexer_calls,
      snapshot_files, copy_run, repair_run>>

\* collect_and_prepare: the File arm of process_node for each File node.
CollectFiles ==
    /\ pc = "restore_collect"
    /\ restore_run' = [restore_run EXCEPT
          !.plan = add_files(RestorePlan0, restore_run.sz, restore_run.files, 1,
                             restore_run.verify_existing)]
    /\ pc' = "restore_contents"
    /\ UNCHANGED restore_frame

\* restore_contents up to the thread pool: the empty files are created, the
\* lengths go under the mutex, the reads are coalesced.
RestoreContentsStart ==
    /\ pc = "restore_contents"
    /\ LET p == restore_run.plan
           empty == {i \in 1..Len(p.file_lengths) : p.file_lengths[i] = 0}
       IN  restore_run' = [restore_run EXCEPT !.set_length = [i \in empty |-> 1],
                                              !.sizes = p.file_lengths,
                                              !.blobs = blobs_of(p)]
    /\ pc' = "restore_tasks"
    /\ UNCHANGED restore_frame

\* The byte offset of position j of the content of a file.
file_pos_of(sz, file, j) ==
    SeqSum([n \in 1..(j - 1) |-> data_length(BlobLocation(get_index_entry(sz, file.content[n])))])

\* dest.read_at(path, offset, length): the blob whose bytes these are, 0 for
\* anything else.
read_at(sz, file, offset, length) ==
    LET hits == {j \in 1..Len(file.content) :
                    /\ file.open
                    /\ j \in file.matching
                    /\ file_pos_of(sz, file, j) = offset
                    /\ data_length(BlobLocation(get_index_entry(sz, file.content[j]))) = length}
    IN  IF hits = {} THEN 0 ELSE file.content[CHOOSE j \in hits : TRUE]

\* be.read_partial and read_encrypted_from_partial of the slice from `first`
\* to `end` of what was read from `offset` in `length` bytes: the blob the
\* pack stores there, 0 for anything else.
read_encrypted_from_partial(sz, pack, offset, length, first, end) ==
    LET hits == {b \in DataBlobs :
                    /\ get_index_entry(sz, b).pack = pack
                    /\ get_index_entry(sz, b).offset = offset + first
                    /\ get_index_entry(sz, b).length = end - first}
    IN  IF hits = {} \/ first < 0 \/ end > length THEN 0 ELSE CHOOSE b \in hits : TRUE

\* The data the task of item x writes to its destination d.
dest_data(r, x, d) ==
    IF x.from_file.some
    THEN read_at(r.sz, r.files[r.plan.names[x.from_file.file_idx]], x.from_file.file_start,
                 x.from_file.length)
    ELSE read_encrypted_from_partial(r.sz, x.pack, x.offset, x.length,
                                     d.bl.offset - x.offset, d.bl.offset + d.bl.length - x.offset)

\* The task spawned for item i: it reads from the existing file or from the
\* pack and spawns one writer for each destination.
Fetch(i) ==
    /\ pc = "restore_tasks"
    /\ i \in 1..Len(restore_run.blobs)
    /\ i \notin restore_run.fetched
    /\ restore_run.blobs[i].name_dests # <<>>
    /\ LET x == restore_run.blobs[i]
           spawned == [w \in {i} \X (1..Len(x.name_dests)) |->
                         [file_idx |-> x.name_dests[w[2]].file_idx,
                          file_start |-> x.name_dests[w[2]].file_start,
                          data |-> dest_data(restore_run, x, x.name_dests[w[2]]),
                          at |-> "lock", filesize |-> 0]]
       IN  restore_run' = [restore_run EXCEPT
              !.fetched = @ \cup {i},
              !.reads = (i :> [from_file |-> x.from_file.some, pack |-> x.pack,
                               offset |-> x.offset, length |-> x.length]) @@ @,
              !.writers = spawned @@ @]
    /\ UNCHANGED <<pc, restore_frame>>

\* sizes.lock().unwrap(); let filesize = sizes_guard[file_idx]
WriterLock(w) ==
    /\ pc = "restore_tasks"
    /\ w \in DOMAIN restore_run.writers
    /\ restore_run.writers[w].at = "lock"
    /\ lock_free(restore_run.holders)
    /\ restore_run' = [restore_run EXCEPT
          !.holders = @ \cup {w},
          !.writers[w].at = "locked",
          !.writers[w].filesize = restore_run.sizes[restore_run.writers[w].file_idx]]
    /\ UNCHANGED <<pc, restore_frame>>

\* Faulty variant of allocated: the entry of the file is left as it is.
allocated_forgotten(sizes, f) == sizes

\* sizes_guard[file_idx] = 0: the entry that says the file has its length.
allocated(sizes, f) == [sizes EXCEPT ![f] = 0]

\* if filesize > 0 { set_length; sizes_guard[file_idx] = 0 }; drop(sizes_guard)
WriterAllocate(w) ==
    /\ pc = "restore_tasks"
    /\ w \in DOMAIN restore_run.writers
    /\ restore_run.writers[w].at = "locked"
    /\ LET f == restore_run.writers[w].file_idx
       IN  restore_run' =
              IF restore_run.writers[w].filesize > 0
              THEN [restore_run EXCEPT
                       !.set_length = (f :> Count(@, f) + 1) @@ @,
                       !.sizes = allocated(@, f),
                       !.holders = @ \ {w},
                       !.writers[w].at = "write"]
              ELSE [restore_run EXCEPT !.holders = @ \ {w}, !.writers[w].at = "write"]
    /\ UNCHANGED <<pc, restore_frame>>

\* dest.write_at(path, start, &data)
WriterWrite(w) ==
    /\ pc = "restore_tasks"
    /\ w \in DOMAIN restore_run.writers
    /\ restore_run.writers[w].at = "write"
    /\ LET to == <<restore_run.writers[w].file_idx, restore_run.writers[w].file_start,
                   restore_run.writers[w].data>>
       IN  restore_run' = [restore_run EXCEPT
              !.writes = (to :> Count(@, to) + 1) @@ @,
              !.writers[w].at = "done"]
    /\ UNCHANGED <<pc, restore_frame>>

\* pool.in_place_scope returns when every spawned task has ended.
RestoreContentsDone ==
    /\ pc = "restore_tasks"
    /\ \A i \in 1..Len(restore_run.blobs) :
          restore_run.blobs[i].name_dests # <<>> => i \in restore_run.fetched
    /\ \A w \in DOMAIN restore_run.writers : restore_run.writers[w].at = "done"
    /\ pc' = "restored"
    /\ UNCHANGED <<restore_run, restore_frame>>

\* The most destinations an item of the model has.
MaxDests == 4

NextRestoreContents ==
    \/ CollectFiles
    \/ RestoreContentsStart
    \/ \E i \in 1..MaxDests : Fetch(i)
    \/ \E w \in (1..MaxDests) \X (1..MaxDests) : WriterLock(w)
    \/ \E w \in (1..MaxDests) \X (1..MaxDests) : WriterAllocate(w)
    \/ \E w \in (1..MaxDests) \X (1..MaxDests) : WriterWrite(w)
    \/ RestoreContentsDone

SpecRestoreContents == InitRestoreContents /\ [][NextRestoreContents]_vars


\* ------------------------------------------------------------------------
\* Restore: collect_and_prepare and restore_metadata on a tree of paths.
\* A path is the sequence of its components, a component a number.
\* ------------------------------------------------------------------------
PathUniverse == {<<1>>, <<1, 1>>, <<1, 2>>, <<1, 2, 1>>, <<2>>}
Root == <<>>

\* Faulty variant of starts_with: no path is found to lie in another.
starts_with_never(path, base) == FALSE

\* Path::starts_with: base is a prefix of path, component by component.
starts_with(path, base) ==
    Len(base) <= Len(path) /\ \A n \in 1..Len(base) : path[n] = base[n]
Beneath(path, base) == path # base /\ starts_with(path, base)

\* Path::cmp: by components, a prefix before its extensions.
path_cmp(p1, p2) ==
    LET same == {n \in 0..Min(Len(p1), Len(p2)) : \A m \in 1..n : p1[m] = p2[m]}
        n == CHOOSE x \in same : \A y \in same : y <= x
    IN  IF n = Len(p1) /\ n = Len(p2) THEN "Equal"
        ELSE IF n = Len(p1) THEN "Less"
        ELSE IF n = Len(p2) THEN "Greater"
        ELSE time_cmp(p1[n + 1], p2[n + 1])

\* A set of paths in the order of Path::cmp.
RECURSIVE path_sorted(_)
path_sorted(P) ==
    IF P = {} THEN <<>>
    ELSE LET first == CHOOSE x \in P : \A y \in P \ {x} : path_cmp(x, y) = "Less"
         IN  <<first>> \o path_sorted(P \ {first})

\* The trees a snapshot may hold: the parent of a node is a Dir node.
NodeTypes == {"dir", "file", "symlink"}
TreeMenu ==
    {t \in UNION {[P -> NodeTypes] : P \in SUBSET PathUniverse \ {{}}} :
        \A path \in DOMAIN t :
           Len(path) > 1 => /\ SubSeq(path, 1, Len(path) - 1) \in DOMAIN t
                            /\ t[SubSeq(path, 1, Len(path) - 1)] = "dir"}

\* The node streamer: the nodes in the order of their paths.
node_stream(t) ==
    LET paths == path_sorted(DOMAIN t)
    IN  [n \in 1..Len(paths) |-> [path |-> paths[n], node_type |-> t[paths[n]]]]

\* What the destination may hold below its root: path -> file type.
DestinationMenu ==
    {EmptyMap,
     (<<1>> :> "file"),
     (<<1>> :> "dir") @@ (<<1, 1>> :> "file") @@ (<<1, 2>> :> "file"),
     (<<1>> :> "dir") @@ (<<1, 2>> :> "dir") @@ (<<1, 2, 1>> :> "file") @@ (<<2>> :> "symlink"),
     (<<1>> :> "symlink") @@ (<<2>> :> "dir"),
     (<<1>> :> "dir") @@ (<<1, 1>> :> "dir") @@ (<<2>> :> "file")}

\* WalkBuilder ... sort_by_file_path(Path::cmp): the root and what is below.
walk(fs) ==
    LET paths == path_sorted(DOMAIN fs \cup {Root})
    IN  [n \in 1..Len(paths) |->
           [path |-> paths[n],
            file_type |-> IF paths[n] = Root THEN "dir" ELSE fs[paths[n]]]]

NoDir == [some |-> FALSE, path |-> Root]

RestoreTree0(t, fs, delete, dry_run) ==
    [op |-> "restore_tree", delete |-> delete, dry_run |-> dry_run,
     stream |-> node_stream(t), fs |-> fs, dst |-> walk(fs), next_node |-> 1,
     removed_dir |-> NoDir, additional_existing |-> FALSE,
     created |-> {}, planned |-> {},
     at |-> 1, dir_stack |-> <<>>, applied |-> <<>>]

InitRestoreTree ==
    /\ NoBackendRun
    /\ pc = "collect"
    /\ \E t \in TreeMenu : \E fs \in DestinationMenu : \E delete, dry_run \in BOOLEAN :
          restore_run = RestoreTree0(t, fs, delete, dry_run)
    /\ copy_run = NoCall
    /\ repair_run = NoCall

\* dest.remove_dir / dest.remove_file: the entry and what is beneath it.
remove_entry(fs, path) == Restrict(fs, {q \in DOMAIN fs : ~starts_with(q, path)})

\* The closure process_existing: the run after the call.  `gone` says whether
\* the walker still yields the entries of a directory that was removed.
process_existing(r, entry, gone) ==
    IF entry.path = Root THEN r
    ELSE IF ~r.delete THEN [r EXCEPT !.additional_existing = TRUE]
    ELSE IF r.dry_run THEN r
    ELSE IF entry.file_type = "dir"
    THEN IF r.removed_dir.some /\ starts_with(entry.path, r.removed_dir.path)
         THEN r
         ELSE [r EXCEPT !.fs = remove_entry(@, entry.path),
                        !.removed_dir = [some |-> TRUE, path |-> entry.path],
                        !.dst = IF gone
                                THEN SelectSeq(@, LAMBDA e : ~Beneath(e.path, entry.path))
                                ELSE @]
    ELSE [r EXCEPT !.fs = remove_entry(@, entry.path)]

\* The closure process_node.
process_node(r, node, exists) ==
    CASE node.node_type = "dir" ->
            IF exists \/ r.dry_run THEN r
            ELSE [r EXCEPT !.created = @ \cup {node.path},
                           !.fs = (node.path :> "dir") @@ @]
      [] node.node_type = "file" -> [r EXCEPT !.planned = @ \cup {node.path}]
      [] OTHER -> r

\* The condition of the Ordering::Equal arm.
mismatched(node, entry) ==
    \/ node.node_type = "dir" /\ entry.file_type # "dir"
    \/ node.node_type = "file" /\ entry.file_type # "file"
    \/ node.node_type \notin {"dir", "file"}

\* One turn of the loop of collect_and_prepare.
CollectStep ==
    /\ pc = "collect"
    /\ LET r == restore_run
           more_dst == r.dst # <<>>
           more_nodes == r.next_node <= Len(r.stream)
           entry == Head(r.dst)
           node == r.stream[r.next_node]
           took_dst(x) == [x EXCEPT !.dst = Tail(@)]
           took_node(x) == [x EXCEPT !.next_node = @ + 1]
       IN  /\ more_dst \/ more_nodes
           /\ \E gone \in BOOLEAN :
                 restore_run' =
                    IF ~more_nodes THEN process_existing(took_dst(r), entry, gone)
                    ELSE IF ~more_dst THEN took_node(process_node(r, node, FALSE))
                    ELSE CASE path_cmp(entry.path, node.path) = "Less" ->
                                 process_existing(took_dst(r), entry, gone)
                           [] path_cmp(entry.path, node.path) = "Equal" ->
                                 took_node(process_node(
                                    IF mismatched(node, entry)
                                    THEN process_existing(took_dst(r), entry, gone)
                                    ELSE took_dst(r),
                                    node, TRUE))
                           [] OTHER -> took_node(process_node(r, node, FALSE))
    /\ UNCHANGED <<pc, restore_frame>>

\* (None, None) => break; restore_contents is not looked at here.
CollectDone ==
    /\ pc = "collect"
    /\ restore_run.dst = <<>>
    /\ restore_run.next_node > Len(restore_run.stream)
    /\ pc' = "metadata"
    /\ UNCHANGED <<restore_run, restore_frame>>

\* The stack after the inner `while let Some(..) = dir_stack.last()` loop and
\* the paths popped, in the order of their set_metadata calls.
RECURSIVE pop_non_parents(_, _)
pop_non_parents(stack, path) ==
    IF stack = <<>> \/ starts_with(path, stack[Len(stack)])
    THEN [stack |-> stack, popped |-> <<>>]
    ELSE LET rest == pop_non_parents(SubSeq(stack, 1, Len(stack) - 1), path)
         IN  [stack |-> rest.stack, popped |-> <<stack[Len(stack)]>> \o rest.popped]

\* One turn of the loop of restore_metadata.
MetadataNode ==
    /\ pc = "metadata"
    /\ restore_run.at <= Len(restore_run.stream)
    /\ LET node == restore_run.stream[restore_run.at]
           after_pop == pop_non_parents(restore_run.dir_stack, node.path)
       IN  restore_run' =
              IF node.node_type = "dir"
              THEN [restore_run EXCEPT !.at = @ + 1,
                                       !.applied = @ \o after_pop.popped,
                                       !.dir_stack = Append(after_pop.stack, node.path)]
              ELSE [restore_run EXCEPT !.at = @ + 1, !.applied = Append(@, node.path)]
    /\ UNCHANGED <<pc, restore_frame>>

\* "empty dir stack and set metadata"
MetadataDrain ==
    /\ pc = "metadata"
    /\ restore_run.at > Len(restore_run.stream)
    /\ LET stack == restore_run.dir_stack
       IN  restore_run' = [restore_run EXCEPT
              !.applied = @ \o [n \in 1..Len(stack) |-> stack[Len(stack) + 1 - n]],
              !.dir_stack = <<>>]
    /\ pc' = "metadata_done"
    /\ UNCHANGED restore_frame

NextRestoreTree ==
    \/ CollectStep
    \/ CollectDone
    \/ MetadataNode
    \/ MetadataDrain

SpecRestoreTree == InitRestoreTree /\ [][NextRestoreTree]_vars


\* ------------------------------------------------------------------------
\* Repair: repair_snapshots and repair_tree
\* ------------------------------------------------------------------------
\* Option<TreeId>::None, the id of the serialized Tree::new(), and the first
\* id of a tree whose content the repository has not seen.
NoTree == 0
EmptyTreeId == 9
FirstTreeId == 20

Suffix == ".repaired"
RepairTag == <<{"repaired"}>>

\* The values of opts.tag: the default, two lists one of which holds a tag
\* the snapshots carry, and no list at all.
RepairTagMenu == {RepairTag, <<{"fixed"}, {"x", "y"}>>, <<>>}

\* A node: its name is kept as the list of its parts.
RepairNode(name, node_type, subtree, content, size) ==
    [name |-> <<name>>, node_type |-> node_type, subtree |-> subtree, content |-> content,
     size |-> size]
ContentSize(content) == SeqSum([n \in 1..Len(content) |-> BlobLength(content[n])])
RepairFile(name, content) == RepairNode(name, "file", NoTree, content, ContentSize(content))
RepairDir(name, subtree) == RepairNode(name, "dir", subtree, <<>>, 0)

\* The trees of the repository by id.  With `wrong` the size recorded for
\* file h is not the size of its content.
RepairTreeIds == 1..5
RepairTree(id, wrong) ==
    CASE id = 1 -> <<RepairFile("f", <<3, 4>>), RepairDir("d", 2)>>
      [] id = 2 -> <<RepairFile("g", <<4, 6>>), RepairDir("e", 3)>>
      [] id = 3 -> <<IF wrong THEN RepairNode("h", "file", NoTree, <<5>>, 7)
                     ELSE RepairFile("h", <<5>>)>>
      [] id = 4 -> <<RepairDir("d", 2), RepairNode("s", "symlink", NoTree, <<>>, 0)>>
      [] id = 5 -> <<RepairDir("n", NoTree)>>

\* The snapshots handed to repair_snapshots; `original` is 0 for None.
RepairSnapshotFile(id, tree, original) ==
    [id |-> id, tree |-> tree, original |-> original, tags |-> {"x"}]
RepairSnapshotMenu ==
    {<<RepairSnapshotFile(1, 1, 0)>>,
     <<RepairSnapshotFile(1, 1, 0),
       [RepairSnapshotFile(2, 4, 0) EXCEPT !.tags = {"x", "z", "repaired"}]>>,
     <<RepairSnapshotFile(3, 5, 0), RepairSnapshotFile(4, 5, 7)>>,
     <<RepairSnapshotFile(5, 1, 7), RepairSnapshotFile(6, 2, 0)>>}

\* repair_snapshots before its loop: the options, the repository as it is
\* (the trees and data blobs its index lacks) and the RepairState.
Repair0(snaps, opts_delete, tag, dry_run, missing_trees, missing_data, wrong, has_empty) ==
    [op |-> "repair", snaps |-> snaps, at |-> 1, opts_delete |-> opts_delete, tag |-> tag,
     dry_run |-> dry_run, wrong |-> wrong,
     index_trees |-> (RepairTreeIds \ missing_trees) \cup (IF has_empty THEN {EmptyTreeId} ELSE {}),
     index_data |-> DataBlobs \ missing_data,
     store |-> [id \in RepairTreeIds |-> RepairTree(id, wrong)] @@ (EmptyTreeId :> <<>>),
     next_tree |-> FirstTreeId,
     replaced |-> EmptyMap, seen |-> {}, delete |-> <<>>,
     packed |-> {}, finalized |-> FALSE, saved |-> {}, removed |-> {}]

InitRepair ==
    /\ be_index = EmptyMap
    /\ be_packs = EmptyMap
    /\ snapshots = {}
    /\ config \in [append_only : BOOLEAN, version : {2}]
    /\ now = 0
    /\ pc = "repair_idle"
    /\ err = "none"
    /\ NoPrune
    /\ next_id = FirstNewId
    /\ start = [index |-> be_index, packs |-> be_packs]
    /\ written = {}
    /\ indexer = Indexer0
    /\ NoIndexerCalls
    /\ \E snaps \in RepairSnapshotMenu :
          /\ sn_store = Range(snaps)
          /\ \E opts_delete, dry_run, wrong, has_empty \in BOOLEAN :
             \E missing_trees \in SUBSET {1, 2, 3} :
             \E missing_data \in {{}, {6}} :
             \E tag \in RepairTagMenu :
                repair_run = Repair0(snaps, opts_delete, tag, dry_run, missing_trees,
                                     missing_data, wrong, has_empty)
    /\ sn_dest = {}
    /\ sn_call = NoCall
    /\ sn_result = NoCall
    /\ copy_run = NoCall
    /\ restore_run = NoCall

\* What repair leaves alone.
repair_frame ==
    <<backend, now, opts, plan, locals, next_id, flushes, history, indexer_calls, sn_dest,
      sn_call, sn_result, copy_run, restore_run>>

\* Faulty variant of from_backend: a tree that cannot be loaded counts as an
\* empty tree that is in order.
from_backend_unchanged(st, id) ==
    IF id \in st.index_trees THEN [tree |-> st.store[id], changed |-> "None"]
    ELSE [tree |-> <<>>, changed |-> "None"]

\* Tree::from_backend(be, index, id).map_or_else(..): the tree and `changed`.
from_backend(st, id) ==
    IF id \in st.index_trees THEN [tree |-> st.store[id], changed |-> "None"]
    ELSE [tree |-> <<>>, changed |-> "This"]

\* tree.serialize(): the id is that of the content.
serialize(st, tree) ==
    LET known == {id \in DOMAIN st.store : st.store[id] = tree}
    IN  IF known # {} THEN [st |-> st, id |-> CHOOSE id \in known : TRUE]
        ELSE [st |-> [st EXCEPT !.store = (st.next_tree :> tree) @@ @, !.next_tree = @ + 1],
              id |-> st.next_tree]

\* node.name += &opts.suffix
suffixed(name) == Append(name, Suffix)

\* The File arm of repair_tree: the node and whether the tree changes.
repair_file(st, node) ==
    LET new_content == SelectSeq(node.content, LAMBDA blob : blob \in st.index_data)
        file_changed == Len(new_content) # Len(node.content)
        new_size == ContentSize(new_content)
    IN  [node |-> [node EXCEPT !.name = IF file_changed THEN suffixed(@) ELSE @,
                               !.content = new_content,
                               !.size = new_size],
         changed |-> file_changed \/ new_size # node.size]

\* Faulty variant of repair_dir: a missing tree is treated like a changed one.
repair_dir_unnamed(node, c, tree_id) ==
    IF c = "None" THEN node ELSE [node EXCEPT !.subtree = tree_id]

\* The Dir arm of repair_tree after the recursive call returned (c, tree_id).
repair_dir(node, c, tree_id) ==
    CASE c = "None" -> node
      [] c = "This" -> [node EXCEPT !.subtree = tree_id, !.name = suffixed(@)]
      [] c = "SubTree" -> [node EXCEPT !.subtree = tree_id]

RECURSIVE repair_tree(_, _)
RECURSIVE repair_nodes(_, _, _, _)

\* `for mut node in tree` from the nodes still to visit: the state, the new
\* tree and `changed`.
repair_nodes(st, nodes, new_tree, changed) ==
    IF nodes = <<>> THEN [st |-> st, tree |-> new_tree, changed |-> changed]
    ELSE LET node == Head(nodes)
         IN  CASE node.node_type = "file" ->
                     LET f == repair_file(st, node)
                     IN  repair_nodes(st, Tail(nodes), Append(new_tree, f.node),
                                      IF f.changed THEN "SubTree" ELSE changed)
               [] node.node_type = "dir" ->
                     LET r == repair_tree(st, node.subtree)
                     IN  repair_nodes(r.st, Tail(nodes),
                                      Append(new_tree, repair_dir(node, r.changed, r.id)),
                                      IF r.changed = "None" THEN changed ELSE "SubTree")
               [] OTHER -> repair_nodes(st, Tail(nodes), Append(new_tree, node), changed)

\* Faulty variant of save_tree: the tree is given to the packer in a dry run
\* too.
save_tree_in_dry_run(st, id, tree, c) ==
    LET s == serialize(st, tree)
        st1 == IF s.id \notin st.index_trees
               THEN [s.st EXCEPT !.packed = @ \cup {s.id}]
               ELSE s.st
        st2 == IF id # NoTree
               THEN [st1 EXCEPT !.replaced = (id :> [changed |-> c, id |-> s.id]) @@ @]
               ELSE st1
    IN  [st |-> st2, changed |-> c, id |-> s.id]

\* "the tree has been changed => save it"
save_tree(st, id, tree, c) ==
    LET s == serialize(st, tree)
        st1 == IF s.id \notin st.index_trees /\ ~st.dry_run
               THEN [s.st EXCEPT !.packed = @ \cup {s.id}]
               ELSE s.st
        st2 == IF id # NoTree
               THEN [st1 EXCEPT !.replaced = (id :> [changed |-> c, id |-> s.id]) @@ @]
               ELSE st1
    IN  [st |-> st2, changed |-> c, id |-> s.id]

\* repair_tree: the RepairState (with what was given to the packer) after the
\* call and the pair (Changed, TreeId) it returns.
repair_tree(st, id) ==
    IF id = NoTree THEN save_tree(st, id, <<>>, "This")
    ELSE IF id \in st.seen THEN [st |-> st, changed |-> "None", id |-> id]
    ELSE IF id \in DOMAIN st.replaced
    THEN [st |-> st, changed |-> st.replaced[id].changed, id |-> st.replaced[id].id]
    ELSE LET loaded == from_backend(st, id)
             r == repair_nodes(st, loaded.tree, <<>>, loaded.changed)
         IN  IF r.changed = "None"
             THEN [st |-> [r.st EXCEPT !.seen = @ \cup {id}], changed |-> "None", id |-> id]
             ELSE save_tree(r.st, id, r.tree, r.changed)

\* The check of repair_snapshots before anything is done.
RepairStart ==
    /\ pc = "repair_idle"
    /\ IF repair_run.opts_delete /\ config.append_only
       THEN pc' = "error" /\ err' = "AppendOnly"
       ELSE pc' = "repair_loop" /\ err' = err
    /\ UNCHANGED <<repair_run, sn_store, repair_frame>>

\* The id the backend gives a snapshot file it saves.
saved_id(snap) == snap.id + 10

\* `for mut snap in snapshots`: one snapshot.
RepairSnapshot ==
    /\ pc = "repair_loop"
    /\ repair_run.at <= Len(repair_run.snaps)
    /\ LET snap == repair_run.snaps[repair_run.at]
           r == repair_tree(repair_run, snap.tree)
           st == [r.st EXCEPT !.at = @ + 1]
           modified == [set_tags([snap EXCEPT !.original = IF @ = 0 THEN snap.id ELSE @],
                                 repair_run.tag).sn
                          EXCEPT !.tree = r.id]
       IN  CASE r.changed = "None" ->
                   /\ repair_run' = st
                   /\ sn_store' = sn_store
             [] r.changed = "This" ->
                   /\ repair_run' = [st EXCEPT !.delete = Append(@, snap.id)]
                   /\ sn_store' = sn_store
             [] r.changed = "SubTree" ->
                   /\ repair_run' = [st EXCEPT
                         !.delete = Append(@, snap.id),
                         !.saved = IF st.dry_run THEN @
                                   ELSE @ \cup {[modified EXCEPT !.id = saved_id(snap)]}]
                   /\ sn_store' = IF st.dry_run THEN sn_store
                                  ELSE sn_store \cup {[modified EXCEPT !.id = saved_id(snap)]}
    /\ UNCHANGED <<pc, err, repair_frame>>

\* packer.finalize() and indexer.finalize(), unless it is a dry run.
RepairFinalize ==
    /\ pc = "repair_loop"
    /\ repair_run.at > Len(repair_run.snaps)
    /\ repair_run' = [repair_run EXCEPT !.finalized = ~repair_run.dry_run]
    /\ pc' = "repair_delete"
    /\ UNCHANGED <<err, sn_store, repair_frame>>

\* be.delete_list(true, state.delete.iter(), ..) when opts.delete is set.
RepairDelete ==
    /\ pc = "repair_delete"
    /\ LET gone == IF repair_run.opts_delete /\ ~repair_run.dry_run
                   THEN Range(repair_run.delete) ELSE {}
       IN  /\ sn_store' = {sn \in sn_store : sn.id \notin gone}
           /\ repair_run' = [repair_run EXCEPT !.removed = gone]
    /\ pc' = "repaired"
    /\ UNCHANGED <<err, repair_frame>>

NextRepair ==
    \/ RepairStart
    \/ RepairSnapshot
    \/ RepairFinalize
    \/ RepairDelete

SpecRepair == InitRepair /\ [][NextRepair]_vars


\* ------------------------------------------------------------------------
\* PrunePlan::new on index files that list a pack more than once
\* ------------------------------------------------------------------------
\* The lists of pack ids an index file of this part holds as `packs` or as
\* `packs_to_delete`: up to three entries for the packs 1, 2 and 3.
ListMenu == {<<>>, <<1>>, <<3>>, <<1, 1>>, <<1, 2>>, <<2, 3>>, <<1, 2, 3>>, <<2, 1, 2>>}

\* An index file with these live and marked packs (written long ago).
ListedFile(live, marked) ==
    [packs |-> [i \in 1..Len(live) |-> IndexPack(live[i], 0, NoSize, CatalogBlobs(live[i]))],
     packs_to_delete |->
        [i \in 1..Len(marked) |-> IndexPack(marked[i], 0, NoSize, CatalogBlobs(marked[i]))]]

ListedFiles == {ListedFile(live, marked) : live \in ListMenu, marked \in ListMenu}
              \ {IndexFile0}

\* One or two such index files, and the pack files of the packs they list.
InitNew ==
    /\ \E ids \in {{1}, {1, 2}} : be_index \in [ids -> ListedFiles]
    /\ be_packs = [p \in Ids(Listed(be_index) \cup Tombstoned(be_index)) |->
                      PackFileSize(CatalogBlobs(p))]
    /\ snapshots \in {{}, {1}}
    /\ config = [append_only |-> FALSE, version |-> 2]
    /\ now = StartTime
    /\ InitRun

\* The options of the calls of this part.
NewOptionSpace ==
    {o \in PlanOptionSpace : o.max_unused = Unlimited /\ ~o.repack_uncompressed /\ ~o.repack_all}

\* from_prune_options up to the return of PrunePlan::new, the index files
\* streamed in some order: find_used_blobs fails, or the plan is created.
NewPlan ==
    /\ pc = "idle"
    /\ \E order \in Orderings(DOMAIN be_index) :
          LET u == find_used_blobs(snapshots, stream_index(order))
          IN  IF u.err # "none"
              THEN plan' = NoPlan /\ err' = u.err /\ pc' = "error"
              ELSE /\ plan' = [NoPlan EXCEPT !.index_files = new_index_files(stream_index(order))]
                   /\ err' = err
                   /\ pc' = "new"
    /\ UNCHANGED <<opts, backend, elsewhere, now, locals, next_id, flushes, history>>

\* The order in which the index files of the plan were streamed.
streamed == [i \in 1..Len(plan.index_files) |-> plan.index_files[i].id]

\* The rest of from_prune_options.
PlanRest ==
    /\ pc = "new"
    /\ \E o \in NewOptionSpace :
          \E out \in from_prune_options(stream_index(streamed), snapshots, be_packs, now, o,
                                        config) :
             /\ plan' = out.plan
             /\ err' = out.err
             /\ pc' = planned(out.err)
             /\ opts' = IF out.err \in {"none", "DivideByZero"} THEN o ELSE NoOpts
    /\ UNCHANGED <<backend, elsewhere, now, locals, next_id, flushes, history>>

NextNew ==
    \/ NewPlan
    \/ PlanRest

SpecNew == InitNew /\ [][NextNew]_vars


\* ------------------------------------------------------------------------
\* filter_index_files on index files around MIN_INDEX_LEN, and the executor
\* ------------------------------------------------------------------------
\* A decided PrunePack of data blobs with `n` index entries of blob 5.
FilterPack(id, n, to_do) ==
    [id |-> id, blob_type |-> "data", size |-> 2 * n + 1,
     delete_mark |-> to_do \in {"KeepMarked", "Delete"}, to_do |-> to_do, time |-> 0,
     blobs |-> [k \in 1..n |-> IndexBlob(5, TRUE)]]

\* The PruneIndex files of this part: one pack with 2, MIN_INDEX_LEN - 1 or
\* MIN_INDEX_LEN blobs and any of four decisions, flagged or not; and two
\* kept packs that hold MIN_INDEX_LEN - 1 or MIN_INDEX_LEN blobs together.
FilterFiles(id) ==
    {[id |-> id, modified |-> m, packs |-> <<FilterPack(10 * id, n, d)>>] :
        m \in BOOLEAN, n \in {2, MIN_INDEX_LEN - 1, MIN_INDEX_LEN},
        d \in {"Keep", "MarkDelete", "KeepMarked", "Delete"}}
    \cup {[id |-> id, modified |-> FALSE,
           packs |-> <<FilterPack(10 * id, MIN_INDEX_LEN \div 2, "Keep"),
                       FilterPack(10 * id + 1, MIN_INDEX_LEN \div 2 - k, "Keep")>>] :
            k \in {0, 1}}

\* The second index file of a plan with two.
SecondFiles ==
    {f \in FilterFiles(2) :
        /\ ~f.modified
        /\ Len(f.packs) = 1
        /\ f.packs[1].to_do \in {"Keep", "MarkDelete"}
        /\ Len(f.packs[1].blobs) \in {2, MIN_INDEX_LEN}}

\* The index file a PruneIndex was made from.
index_file_of(index) ==
    LET entry(mark) ==
            LET ps == SelectSeq(index.packs, LAMBDA p : p.delete_mark = mark)
            IN  [i \in 1..Len(ps) |-> IndexPack(ps[i].id, ps[i].time, NoSize, ps[i].blobs)]
    IN  [packs |-> entry(FALSE), packs_to_delete |-> entry(TRUE)]

\* from_prune_options before its call of filter_index_files.
InitFilter ==
    /\ \E first \in FilterFiles(1), second \in SecondFiles \cup {IndexFile0} :
          LET files == IF second = IndexFile0 THEN <<first>> ELSE <<first, second>>
          IN  /\ plan = [NoPlan EXCEPT !.time = StartTime, !.index_files = files]
              /\ be_index = [id \in 1..Len(files) |-> index_file_of(files[id])]
              /\ be_packs = [id \in {p.id : p \in Range(all_packs(files))} |->
                                (CHOOSE p \in Range(all_packs(files)) : p.id = id).size]
    /\ snapshots = {}
    /\ config = [append_only |-> FALSE, version |-> 2]
    /\ now = StartTime
    /\ pc = "decided"
    /\ err = "none"
    /\ opts = NoOpts
    /\ plan_time = NoTime
    /\ packs = <<>>
    /\ pending = {}
    /\ working = EmptyMap
    /\ used_ids = {}
    /\ unreferenced = EmptyMap
    /\ indexer = Indexer0
    /\ repacker = Repacker0
    /\ indexes_remove = {}
    /\ data_packs_remove = {}
    /\ tree_packs_remove = {}
    /\ next_id = FirstNewId
    /\ flushes = 0
    /\ start = [index |-> be_index, packs |-> be_packs]
    /\ warmed = {}
    /\ handed = EmptyMap
    /\ written = {}
    /\ new_packs = {}
    /\ marked_at = EmptyMap
    /\ NoIndexerCalls
    /\ NoSnapshotFiles
    /\ NoOtherRuns

\* The options of the calls of this part.
FilterOptionSpace ==
    {[NoOpts EXCEPT !.keep_delete = 2, !.instant_delete = i] : i \in BOOLEAN}

\* The last statement of from_prune_options.
FilterIndexFiles ==
    /\ pc = "decided"
    /\ \E o \in FilterOptionSpace :
          /\ plan' = [plan EXCEPT
                         !.index_files = filter_index_files(plan.index_files, o.instant_delete),
                         !.stats.index_files = Len(plan.index_files),
                         !.stats.index_files_rebuild =
                            Len(filter_index_files(plan.index_files, o.instant_delete))]
          /\ opts' = o
    /\ pc' = "planned"
    /\ UNCHANGED <<backend, elsewhere, now, err, locals, next_id, flushes, history>>

\* filter_index_files, then prune_repository on the plan.
NextFilter ==
    \/ FilterIndexFiles
    \/ Start
    \/ EarlyDelete
    \/ \E i \in 1..Len(packs) : ProcessPack(i)
    \/ FinalizeTree
    \/ FinalizeData
    \/ FinalizeIndexer
    \/ DeleteIndexes
    \/ DeleteData
    \/ DeleteTree
    \/ Fail

SpecFilter == InitFilter /\ [][NextFilter]_vars


\* ------------------------------------------------------------------------
\* The planner with a limit on the size to repack
\* ------------------------------------------------------------------------
\* The options of the calls of SpecRepack: max_repack as a size, as a
\* percentage of the total size, or unlimited.
RepackOptionSpace ==
    [max_repack : {Unlimited, Size(0), Size(1), Size(2), Size(3), Size(4),
                   Percentage(0), Percentage(50), Percentage(100)},
     max_unused : {Size(0), Unlimited},
     keep_pack : {0},
     keep_delete : {2},
     instant_delete : {FALSE},
     early_delete_index : {FALSE},
     fast_repack : {FALSE},
     repack_uncompressed : BOOLEAN,
     repack_all : BOOLEAN,
     repack_cacheable_only : {FALSE},
     no_resize : BOOLEAN]

InitRepack ==
    /\ \E l \in Layouts :
          /\ be_index = LayoutIndex(l)
          /\ be_packs = LayoutPacks(l)
    /\ snapshots \in SnapshotSets
    /\ config = [append_only |-> FALSE, version |-> 2]
    /\ now = StartTime
    /\ InitRun

PlanRepack == PlanWith(RepackOptionSpace)

SpecRepack == InitRepack /\ [][PlanRepack]_vars


\* ------------------------------------------------------------------------
\* decide_packs pack by pack, on blobs that are indexed many times
\* ------------------------------------------------------------------------
\* n index entries of blob b.
Copies(b, n) == [k \in 1..n |-> IndexBlob(b, TRUE)]

\* The largest number of data packs that hold nothing but blob 4, and of the
\* entries of blob 4 in one pack.
ManyPacks == 10
ManyCopies == 26

\* The blobs of data pack 2, live in index file 1.
SecondPackMenu ==
    {<<IndexBlob(3, TRUE), IndexBlob(6, TRUE)>>,
     <<IndexBlob(3, TRUE), IndexBlob(4, TRUE), IndexBlob(6, TRUE)>>,
     <<IndexBlob(4, TRUE), IndexBlob(3, TRUE), IndexBlob(4, TRUE), IndexBlob(6, TRUE)>>,
     <<IndexBlob(6, TRUE), IndexBlob(3, TRUE)>> \o Copies(4, ManyCopies)}

\* Index file 2: packs 3, 4, ... that hold n entries of blob 4 each, the
\* first of them marked or live.  Together with pack 2 blob 4 has up to
\* 2 + ManyPacks * ManyCopies index entries, more than CounterMax.
CopyPacks ==
    {<<1, 1>>, <<1, 2>>, <<1, ManyCopies>>, <<ManyPacks - 1, ManyCopies>>,
     <<ManyPacks, ManyCopies>>}

InitDecide ==
    /\ \E second \in SecondPackMenu, c \in CopyPacks, marked \in BOOLEAN :
          LET first == <<IndexBlob(1, TRUE), IndexBlob(2, TRUE)>>
              entry(k) == IndexPack(2 + k, 0, NoSize, Copies(4, c[2]))
          IN  /\ be_index =
                    (1 :> [packs |-> <<IndexPack(1, 0, NoSize, first),
                                       IndexPack(2, 0, NoSize, second)>>,
                           packs_to_delete |-> <<>>]
                     @@ 2 :> [packs |-> [k \in 1..(c[1] - 1) |-> entry(k + 1)]
                                        \o (IF marked THEN <<>> ELSE <<entry(1)>>),
                              packs_to_delete |-> IF marked THEN <<entry(1)>> ELSE <<>>])
              /\ be_packs = [id \in 1..(2 + c[1]) |->
                               IF id = 1 THEN PackFileSize(first)
                               ELSE IF id = 2 THEN PackFileSize(second)
                               ELSE PackFileSize(Copies(4, c[2]))]
    /\ snapshots \in SnapshotSets
    /\ config = [append_only |-> FALSE, version |-> 2]
    /\ now = StartTime
    /\ InitRun

\* The options of the calls of this part.
DecideOptionSpace ==
    {o \in PlanOptionSpace :
        o.max_unused \in {Size(0), Unlimited} /\ ~o.repack_uncompressed /\ ~o.instant_delete}

\* The positions of all packs, in index order.
all_positions(index_files) ==
    Flatten([i \in 1..Len(index_files) |->
                [j \in 1..Len(index_files[i].packs) |-> <<i, j>>]])

\* from_prune_options up to the call of count_used_blobs: find_used_blobs and
\* PrunePlan::new.  The plan is the planner state with the positions
\* count_used_blobs and decide_packs still have to visit.
FindUsed ==
    /\ pc = "idle"
    /\ \E o \in DecideOptionSpace, order \in Orderings(DOMAIN be_index) :
          LET u == find_used_blobs(snapshots, stream_index(order))
              index_files == new_index_files(stream_index(order))
          IN  /\ plan' = IF u.err # "none" THEN NoPlan
                         ELSE [time |-> now, index_files |-> index_files, used_ids |-> u.ids,
                               stats |-> PruneStats0, repack_candidates |-> <<>>,
                               uncounted |-> all_positions(index_files),
                               positions |-> pack_positions(index_files, TRUE)
                                             \o pack_positions(index_files, FALSE)]
              /\ err' = u.err
              /\ pc' = IF u.err # "none" THEN "error" ELSE "counting"
              /\ opts' = IF u.err # "none" THEN NoOpts ELSE o
    /\ UNCHANGED <<backend, elsewhere, now, locals, next_id, flushes, history>>

\* count_used_blobs on the blobs of one pack.
CountPack ==
    /\ pc = "counting"
    /\ plan.uncounted # <<>>
    /\ LET pos == Head(plan.uncounted)
       IN  plan' = [plan EXCEPT
                       !.used_ids = count_blobs(@, plan.index_files[pos[1]].packs[pos[2]].blobs),
                       !.uncounted = Tail(@)]
    /\ UNCHANGED <<backend, elsewhere, now, pc, err, opts, locals, next_id, flushes, history>>

\* PrunePlan::check
CheckUsed ==
    /\ pc = "counting"
    /\ plan.uncounted = <<>>
    /\ IF check(plan.used_ids)
       THEN pc' = "deciding" /\ UNCHANGED <<plan, err, opts>>
       ELSE pc' = "error" /\ err' = "BlobMissing" /\ plan' = NoPlan /\ opts' = NoOpts
    /\ UNCHANGED <<backend, elsewhere, now, locals, next_id, flushes, history>>

\* One pass of the innermost loop of decide_packs.
DecidePack ==
    /\ pc = "deciding"
    /\ plan.positions # <<>>
    /\ plan' = [decide_pack(plan, Head(plan.positions), plan.time, opts)
                   EXCEPT !.positions = Tail(plan.positions)]
    /\ UNCHANGED <<backend, elsewhere, now, pc, err, opts, locals, next_id, flushes, history>>

\* The rest of from_prune_options once decide_packs has visited every pack.
DecideRest ==
    /\ pc = "deciding"
    /\ plan.positions = <<>>
    /\ \E c \in sorted_candidates(plan.repack_candidates) :
          LET out == finish_plan(plan, c, be_packs, plan.time, opts)
          IN  /\ plan' = out.plan
              /\ err' = out.err
              /\ pc' = planned(out.err)
    /\ UNCHANGED <<backend, elsewhere, now, opts, locals, next_id, flushes, history>>

NextDecide ==
    \/ FindUsed
    \/ CountPack
    \/ CheckUsed
    \/ DecidePack
    \/ DecideRest

SpecDecide == InitDecide /\ [][NextDecide]_vars


\* ------------------------------------------------------------------------
\* Properties
\* ------------------------------------------------------------------------
\* Every blob id reachable from a snapshot.
ReachableBlobs == Closure(snapshots)

\* Blob b is found through the index files ix in a pack whose file exists.
Resolves(b, ix, files) ==
    \E p \in Listed(ix) : p.id \in DOMAIN files /\ b \in BlobsOf(p)

\* The packs some index file listed when the run began, by type.
StartEntries == Listed(start.index) \cup Tombstoned(start.index)
StartIndexed == Ids(StartEntries)
StartIndexedOf(tpe) == Ids({p \in StartEntries : blob_type(p) = tpe})

\* What a step removes from the backend.
RemovedPacks == DOMAIN be_packs \ DOMAIN be_packs'
RemovedIndexes == DOMAIN be_index \ DOMAIN be_index'

\* The contents of the indexer are on the backend.
IndexerSaved ==
    indexer.file = IndexFile0 \/ \E f \in written : f \in DOMAIN be_index /\ be_index[f] = indexer.file

\* C1: after a plan followed by a successful prune_repository, every blob
\* reachable from a snapshot is listed in a live entry of an index file of the
\* backend whose pack file exists.
C1_ReachableBlobsResolve ==
    pc = "done" => \A b \in ReachableBlobs : Resolves(b, be_index, be_packs)

\* A successful run that repacked and removed pack files, with snapshots.
C1_Witness ==
    /\ pc = "done"
    /\ ReachableBlobs # {}
    /\ new_packs # {}
    /\ StartIndexed \ DOMAIN be_packs # {}

\* C2: no pack file listed in an index file is deleted before both repackers
\* and the indexer have been finalized; the file of a Repack pack is deleted
\* only when the new packs holding the blobs handed over from it are written
\* and indexed.
C2_PacksDeletedAfterFinalize ==
    [][\A id \in RemovedPacks \cap StartIndexed :
          /\ pc \in {"delete_data", "delete_tree"}
          /\ repacker = Repacker0
          /\ IndexerSaved
          /\ id \in warmed =>
                \A key \in DOMAIN handed :
                    key[1] = id =>
                       \E f \in written \cap DOMAIN be_index :
                          \E p \in Range(be_index[f].packs) :
                             /\ p.id \in new_packs \cap DOMAIN be_packs
                             /\ key[2] \in BlobsOf(p)]_vars

\* A successful run that deleted the file of a pack it repacked.
C2_Witness ==
    /\ pc = "done"
    /\ warmed \ DOMAIN be_packs # {}
    /\ DOMAIN handed # {}

\* C3: without early_delete_index the superseded index files are deleted only
\* after the indexer has been finalized, old data packs only when all of them
\* are gone, and old tree packs only when all old data packs are gone.
C3_DeletionOrder ==
    [][~opts.early_delete_index =>
          /\ RemovedIndexes # {} =>
                pc = "delete_indexes" /\ repacker = Repacker0 /\ IndexerSaved
          /\ RemovedPacks \cap StartIndexedOf("data") # {} =>
                indexes_remove \cap DOMAIN be_index = {}
          /\ RemovedPacks \cap StartIndexedOf("tree") # {} =>
                /\ indexes_remove \cap DOMAIN be_index = {}
                /\ data_packs_remove \cap DOMAIN be_packs = {}]_vars

\* A successful run without early_delete_index that removed index files, a
\* data pack and a tree pack.
C3_Witness ==
    /\ pc = "done"
    /\ ~opts.early_delete_index
    /\ DOMAIN start.index \ DOMAIN be_index # {}
    /\ StartIndexedOf("data") \ DOMAIN be_packs # {}
    /\ StartIndexedOf("tree") \ DOMAIN be_packs # {}

\* C4: when, without early_delete_index, the processing of a pack or the
\* finalizing of a repacker or of the indexer fails, the error is returned
\* with every index file and every indexed pack file of before the run in
\* place: every blob that resolved before still resolves.
C4_FailureKeepsOldFiles ==
    (pc = "error" /\ err \in {"PackFailed", "RepackerFailed", "IndexerFailed"}
        /\ ~opts.early_delete_index) =>
       /\ \A f \in DOMAIN start.index : f \in DOMAIN be_index /\ be_index[f] = start.index[f]
       /\ \A id \in StartIndexed \cap DOMAIN start.packs :
             id \in DOMAIN be_packs /\ be_packs[id] = start.packs[id]
       /\ \A b \in BlobIds :
             Resolves(b, start.index, start.packs) => Resolves(b, be_index, be_packs)

\* A run that failed in the worker loop after new packs had been written.
C4_Witness ==
    /\ pc = "error"
    /\ err = "PackFailed"
    /\ ~opts.early_delete_index
    /\ new_packs # {}

\* C5: in an append-only repository prune_repository returns AppendOnly before
\* any backend operation: nothing is warmed up, written or deleted.
C5_AppendOnlyIsRefused ==
    config.append_only =>
       /\ pc \in {"idle", "planned", "error"}
       /\ pc = "error" =>
             err \in {"AppendOnly", "TreeNotFound", "BlobMissing", "PackDoesNotExist",
                      "PackSizeMismatch"}
       /\ warmed = {}
       /\ written = {}
       /\ new_packs = {}
       /\ be_index = start.index
       /\ be_packs = start.packs

\* prune_repository has refused a plan for an append-only repository.
C5_Witness ==
    /\ config.append_only
    /\ pc = "error"
    /\ err = "AppendOnly"
    /\ StartIndexed # {}


\* Blob b of pack i of `packs` is also held by another pack that stays or is
\* repacked.
ClaimedElsewhere(b, i) ==
    \E j \in 1..Len(packs) :
       /\ j # i
       /\ b \in BlobsOf(packs[j])
       /\ packs[j].to_do \in {"Keep", "Recover", "Repack"}

\* Pack id is in the live list the step leaves in the indexer or has written.
LiveAfterStep(id) ==
    \/ id \in Ids(Range(indexer'.file.packs))
    \/ \E f \in written' \ written : id \in Ids(Range(be_index'[f].packs))

\* C6: in a run without instant_delete, the file of a pack that a run with
\* plan time t put into packs_to_delete is deleted only if the plan time t' of
\* the deleting run satisfies t' - t >= keep_delete and the run needs no blob
\* of the pack from it; a marked pack holding a reachable blob that no other
\* remaining pack holds is not deleted or kept marked but moved to the live
\* list.
C6_TombstonedPacksWait ==
    [][~opts.instant_delete =>
          /\ \A id \in RemovedPacks \cap DOMAIN marked_at :
                /\ plan_time # NoTime
                /\ plan_time - marked_at[id] >= opts.keep_delete
                /\ \A i \in 1..Len(packs) :
                      packs[i].id = id =>
                         \A b \in BlobsOf(packs[i]) \cap ReachableBlobs : ClaimedElsewhere(b, i)
          /\ \A i \in pending \ pending' :
                (/\ pc' = "packs"
                 /\ packs[i].delete_mark
                 /\ \E b \in BlobsOf(packs[i]) \cap ReachableBlobs : ~ClaimedElsewhere(b, i)) =>
                   /\ packs[i].to_do = "Recover"
                   /\ LiveAfterStep(packs[i].id)]_vars

\* A run without instant_delete has deleted the file of a pack that an earlier
\* run had put into packs_to_delete.
C6_Witness ==
    /\ pc = "done"
    /\ ~opts.instant_delete
    /\ \E id \in DOMAIN marked_at :
          /\ id \in DOMAIN start.packs
          /\ id \notin DOMAIN be_packs
          /\ marked_at[id] < now

\* C7: every pack of the live list whose time is later than the plan time
\* minus keep_pack is decided Keep, whatever its blobs and the repack options
\* are.
C7_YoungPacksAreKept ==
    pc = "planned" =>
       \A i \in 1..Len(plan.index_files) :
          \A p \in Range(plan.index_files[i].packs) :
             (~p.delete_mark /\ p.time # NoTime /\ p.time > plan.time - opts.keep_pack) =>
                p.to_do = "Keep"

\* A plan that keeps a young pack holding a reachable and an unreachable blob.
C7_Witness ==
    /\ pc = "planned"
    /\ opts.keep_pack > 0
    /\ \E i \in 1..Len(plan.index_files) :
          \E p \in Range(plan.index_files[i].packs) :
             /\ ~p.delete_mark
             /\ p.time > plan.time - opts.keep_pack
             /\ p.time <= plan.time
             /\ p.to_do = "Keep"
             /\ BlobsOf(p) \cap ReachableBlobs # {}
             /\ BlobsOf(p) \ ReachableBlobs # {}

\* No blob occurs in two packs of the index files the run began with.
NoSharedBlobs ==
    \A p, q \in StartEntries : p.id # q.id => BlobsOf(p) \cap BlobsOf(q) = {}

\* The packs of a plan that are data packs decided Repack.
RepackedData(p) == p.blob_type = "data" /\ p.to_do = "Repack"

\* The planning part of C8: the decision and the statistics.
C8_Planned ==
    (/\ pc = "planned"
     /\ opts.max_repack = Unlimited
     /\ opts.max_unused = Size(0)
     /\ opts.keep_pack = 0
     /\ ~opts.repack_cacheable_only
     /\ NoSharedBlobs) =>
       LET ps == all_packs(plan.index_files)
       IN  /\ \A i \in 1..Len(ps) :
                (/\ ~ps[i].delete_mark
                 /\ ps[i].blob_type = "data"
                 /\ BlobsOf(ps[i]) \cap ReachableBlobs # {}
                 /\ BlobsOf(ps[i]) \ ReachableBlobs # {}) => ps[i].to_do = "Repack"
           /\ plan.stats.blobs["data"].repack =
                 SeqSum([i \in 1..Len(ps) |->
                           IF RepackedData(ps[i]) THEN Len(ps[i].blobs) ELSE 0])
           /\ plan.stats.blobs["data"].repackrm =
                 SeqSum([i \in 1..Len(ps) |->
                           IF RepackedData(ps[i])
                           THEN Len(ps[i].blobs) - Cardinality(BlobsOf(ps[i]) \cap ReachableBlobs)
                           ELSE 0])

\* The blobs of the repacked pack id that were handed to a repacker, each once.
HandedExactly(id) ==
    \E p \in StartEntries :
       /\ p.id = id
       /\ DOMAIN Restrict(handed, {key \in DOMAIN handed : key[1] = id})
             = {<<id, b>> : b \in BlobsOf(p) \cap ReachableBlobs}
       /\ \A key \in DOMAIN handed : key[1] = id => handed[key] = 1

C9_WrittenListsDisjoint ==
    \A f \in written \cap DOMAIN be_index :
       Ids(Range(be_index[f].packs)) \cap Ids(Range(be_index[f].packs_to_delete)) = {}

\* A run on index files that listed a pack as live and as marked has flushed
\* and has written an index file with both lists filled.
C9_Witness ==
    /\ Ids(Listed(start.index)) \cap Ids(Tombstoned(start.index)) # {}
    /\ flushes > 0
    /\ \E f \in written \cap DOMAIN be_index :
          be_index[f].packs # <<>> /\ be_index[f].packs_to_delete # <<>>

\* How often blob b was handed to a repacker in this run.
HandedTimes(b) == FnSum(Restrict(handed, {key \in DOMAIN handed : key[2] = b}))

\* The positions of the Repack packs that hold blob b.
RepackHolders(b) ==
    {i \in 1..Len(packs) : packs[i].to_do = "Repack" /\ b \in BlobsOf(packs[i])}

IndexedBlobs == UNION {BlobsOf(p) : p \in Listed(be_index) \cup Tombstoned(be_index)}

\* A call of from_prune_options returns in this step.
PlanReturns == pc = "idle" /\ pc' # "idle"

\* C11: from_prune_options fails with an error and yields no plan whenever
\* a blob reachable from a snapshot is in no pack of any index file, neither
\* in packs nor in packs_to_delete.
C11_MissingBlobFailsPlan ==
    [][PlanReturns /\ ~(ReachableBlobs \subseteq IndexedBlobs)
          => pc' = "error" /\ err' # "none" /\ plan' = NoPlan]_vars

\* A plan was refused because a data blob of a snapshot is in no pack.
C11_Witness ==
    /\ pc = "error"
    /\ err = "BlobMissing"
    /\ plan = NoPlan
    /\ \E b \in ReachableBlobs \ IndexedBlobs : b \in DataBlobs

\* An entry of an index file without a pack file of its size.
Unmatched(p) == p.id \notin DOMAIN be_packs \/ be_packs[p.id] # pack_size(p)

\* C12: planning fails with an error whenever a pack listed in an index file,
\* in packs or in packs_to_delete, has no pack file or a pack file of another
\* size than the index records (calls that abort in decide_repack aside).
C12_Original ==
    [][/\ PlanReturns
       /\ pc' # "panic"
       /\ \E p \in Listed(be_index) \cup Tombstoned(be_index) : Unmatched(p)
       => pc' = "error"]_vars

\* C13: planning with max_unused = Percentage(100) and neither
\* repack_uncompressed nor repack_all is rejected with an error, and the limit
\* computation never divides by zero.
C13_Original ==
    /\ pc # "panic"
    /\ (/\ opts.max_unused = Percentage(100)
        /\ ~(opts.repack_uncompressed \/ opts.repack_all)) => pc = "error"


\* ------------------------------------------------------------------------
\* Claims about the indexer
\* ------------------------------------------------------------------------
\* Call i passes the check of add_with in this step and saves / does not fail.
Flushing(i) ==
    i \in DOMAIN inside /\ inside[i] = "check" /\ i \in DOMAIN inside' /\ inside'[i] = "reset"
Checking(i) ==
    i \in DOMAIN inside /\ inside[i] = "check" /\ pc' # "error"
Resetting(i) ==
    i \in DOMAIN inside /\ inside[i] = "reset" /\ i \notin DOMAIN inside'

\* The index files a step writes.
NewIndexes == DOMAIN be_index' \ DOMAIN be_index

\* The number of blobs of the packs of an index file.
FileBlobs(file) ==
    SeqSum([k \in 1..Len(file.packs) |-> Len(file.packs[k].blobs)])
    + SeqSum([k \in 1..Len(file.packs_to_delete) |-> Len(file.packs_to_delete[k].blobs)])

\* The membership set holds the blobs of every pack added so far.
Membership ==
    indexer.indexed.some =>
        \A i \in DOMAIN adds \ todo : \A b \in BlobsOf(call_pack(i)) : has(indexer, b)

\* C14: an add / add_remove call flushes exactly when, after the pack was
\* appended, the buffered blob count is >= MAX_COUNT or at least MAX_AGE
\* seconds have passed since creation or the last flush; the flush writes the
\* buffered IndexFile, empties it and resets counter and timer, and the
\* membership set still contains every blob id added so far.
C14_FlushPolicy ==
    [][/\ \A i \in DOMAIN adds :
             /\ Checking(i) =>
                   /\ Flushing(i) <=> \/ FileBlobs(indexer.file) >= MAX_COUNT
                                      \/ now' - indexer.created >= MAX_AGE
                   /\ Flushing(i) => /\ Cardinality(NewIndexes) = 1
                                     /\ \A f \in NewIndexes : be_index'[f] = indexer.file
                   /\ ~Flushing(i) => NewIndexes = {}
                   /\ indexer' = indexer
             /\ Resetting(i) =>
                   /\ indexer'.file = IndexFile0
                   /\ indexer'.count = 0
                   /\ indexer'.created = now'
                   /\ indexer'.indexed = indexer.indexed
       /\ Membership']_vars

\* No finalize yet, an intermediate flush of fewer than MAX_COUNT blobs (by
\* age) has emptied the buffer, and the membership set holds the blobs.
C14_Witness ==
    /\ finalized = 0
    /\ pc = "indexing"
    /\ \E f \in written : FileBlobs(be_index[f]) < MAX_COUNT
    /\ indexer.file = IndexFile0
    /\ indexer.created > 0
    /\ inside = EmptyMap
    /\ indexer.indexed.some
    /\ indexer.indexed.ids # {}

\* A call of finalize returns Ok in this step.
FinalizeReturns == finalized' = finalized + 1 /\ pc' = "finalized"
Buffered(ix) == Len(ix.file.packs) + Len(ix.file.packs_to_delete)

\* C15 as stated: finalize writes the buffered IndexFile only if it holds at
\* least one pack, and afterwards the buffer is cleared.
C15_Original ==
    [][FinalizeReturns =>
          /\ (Buffered(indexer) = 0 => NewIndexes = {})
          /\ indexer'.file = IndexFile0
          /\ indexer'.count = 0]_vars

\* C15, amended: finalize writes the buffered IndexFile if and only if it
\* holds at least one pack, and leaves the buffer, the counter and the timer
\* as they were.
C15_FinalizeSavesOnly ==
    [][FinalizeReturns =>
          /\ (Buffered(indexer) = 0 => NewIndexes = {})
          /\ (Buffered(indexer) > 0 =>
                 /\ Cardinality(NewIndexes) = 1
                 /\ \A f \in NewIndexes : be_index'[f] = indexer.file)
          /\ indexer' = indexer]_vars

\* finalize was called twice in a row and wrote the same IndexFile twice.
C15_Witness ==
    /\ pc = "finalized"
    /\ finalized = 2
    /\ Buffered(indexer) > 0
    /\ \E f, g \in written : f # g /\ be_index[f] = indexer.file /\ be_index[g] = indexer.file

\* Where the pack of call i occurs in the index files written.
Occurrences(i) ==
    {<<f, l, k>> \in written \X {"packs", "packs_to_delete"} \X (1..MaxAdds + 1) :
        /\ f \in DOMAIN be_index
        /\ k <= Len(be_index[f][l])
        /\ be_index[f][l][k].id = i}

\* All calls have returned and finalize was called once, after them.
FinalizedOnce ==
    pc = "finalized" /\ finalized = 1 /\ todo = {} /\ inside = EmptyMap

\* C16: when the callers are done and finalize was called once after them,
\* every added pack is in exactly one index file written, whole, in packs
\* for add and in packs_to_delete for add_remove.
C16_EveryPackWrittenOnce ==
    FinalizedOnce =>
        \A i \in DOMAIN adds :
            /\ Cardinality(Occurrences(i)) = 1
            /\ \A o \in Occurrences(i) :
                  /\ o[2] = (IF adds[i].delete THEN "packs_to_delete" ELSE "packs")
                  /\ be_index[o[1]][o[2]][o[3]] = call_pack(i)

\* Two callers, an add and an add_remove, a flush in between and the
\* finalize: two index files were written.
C16_Witness ==
    /\ FinalizedOnce
    /\ Len(adds) >= 2
    /\ Cardinality(written) >= 2
    /\ \E i, j \in DOMAIN adds : adds[i].delete /\ ~adds[j].delete


\* ------------------------------------------------------------------------
\* Claims about snapshot files
\* ------------------------------------------------------------------------
\* The snapshots of the store that pass the filter of the call.
Passing == {s \in sn_store : predicate(sn_call.filter, s)}
Newer(s) == {t \in Passing : t.time > s.time}
NotOlder(s) == {t \in Passing : t.time >= s.time}

\* The string latest~n.
LatestString(n) == Str_latest \o Tilde \o to_string(n)

\* The n the call asks for: latest_n(n), from_str("latest") and
\* from_str("latest~n").
Asked ==
    IF sn_call.op = "latest_n" THEN {sn_call.n}
    ELSE IF sn_call.op = "from_str"
    THEN {n \in 0..MaxN : sn_call.string = LatestString(n)}
         \cup (IF sn_call.string = Str_latest THEN {0} ELSE {})
    ELSE {}

\* The result is the (n+1)-th newest of the passing snapshots, or the error.
LatestRight(n) ==
    IF n < Cardinality(Passing)
    THEN /\ sn_result.ok
         /\ sn_result.sn \in Passing
         /\ Cardinality(Newer(sn_result.sn)) <= n
         /\ n < Cardinality(NotOlder(sn_result.sn))
    ELSE /\ ~sn_result.ok
         /\ sn_result.err = (IF n = 0 THEN "NoSnapshotsFound" ELSE "NoSnapshotsFoundForLatestN")
         /\ sn_result.n = n

\* C17: latest_n(filter, n) over a store in which m snapshots pass the filter
\* returns the (n+1)-th newest of them by time when n < m, whatever the order
\* of the stream, and an error otherwise (one that names latest~n for n > 0);
\* from_str("latest") and from_str("latest~N") do the same with n = 0 and N.
C17_LatestN == \A n \in Asked : LatestRight(n)

\* from_str("latest~1") on three or more passing snapshots streamed oldest
\* last but one: the second newest is returned.
C17_Witness ==
    /\ sn_call.op = "from_str"
    /\ sn_call.string = LatestString(1)
    /\ Cardinality(Passing) >= 3
    /\ sn_result.ok
    /\ Cardinality(Newer(sn_result.sn)) = 1
    /\ Newer(sn_call.stream[1]) # {}
    /\ Newer(sn_call.stream[1]) # Newer(sn_result.sn)

\* t comes before s when snapshots are ordered newest first, ties by id.
Before(t, s) == t.time > s.time \/ (t.time = s.time /\ t.id > s.id)
DistinctTimes(S) == \A a, b \in S : a.time = b.time => a = b

\* C18 as stated: two distinct snapshots never compare Equal (ties are
\* ordered by id), and latest / latest~N returns the snapshot that the order
\* by time and id determines.
C18_Original ==
    \A n \in Asked :
        sn_result.ok =>
            /\ Cardinality({t \in Passing : Before(t, sn_result.sn)}) = n
            /\ \A a, b \in Passing : a # b => cmp(a, b) # "Equal"

\* C18, amended: snapshots are ordered by time only, two snapshots of the
\* same time compare Equal, and latest / latest~N is determined by the set of
\* passing snapshots when their times are pairwise distinct.
C18_OrderedByTimeOnly ==
    /\ \A a, b \in sn_store :
          /\ cmp(a, b) = "Equal" <=> a.time = b.time
          /\ cmp(a, b) = "Less" <=> a.time < b.time
    /\ \A n \in Asked :
          sn_result.ok /\ DistinctTimes(Passing) =>
              \A t \in Passing : Cardinality(Newer(t)) = n => sn_result.sn = t

\* The store holds two snapshots of the same time; a call on passing
\* snapshots of distinct times returned one that is not the newest.
C18_Witness ==
    /\ ~DistinctTimes(sn_store)
    /\ sn_call.op = "latest_n"
    /\ sn_call.n > 0
    /\ DistinctTimes(Passing)
    /\ sn_result.ok
    /\ Cardinality(Newer(sn_result.sn)) = sn_call.n

\* C19 as stated: modify_sn returns Some(snapshot) if and only if the tags
\* or the delete option after the call differ from those before the call.
C19_Original ==
    sn_call.op = "modify_sn" =>
        (sn_result.some <=> \/ sn_result.sn.tags # sn_call.sn.tags
                            \/ sn_result.sn.delete # sn_call.sn.delete)

\* Two snapshots agree on what the copy command keeps.
Agree(d, sn) ==
    /\ d.time = sn.time
    /\ d.hostname = sn.hostname
    /\ d.label = sn.label
    /\ d.paths = sn.paths
    /\ d.tags = sn.tags
    /\ d.tree = sn.tree

\* C20 as stated: relevant_snapshots marks a source snapshot relevant if and
\* only if no snapshot of the destination agrees with it on time, hostname,
\* label, paths, tags and tree.
C20_Original ==
    sn_call.op = "relevant_snapshots" =>
        \A sn \in sn_call.snaps :
            sn \in sn_result.relevant <=> ~\E d \in sn_dest : Agree(d, sn)



\* ------------------------------------------------------------------------
\* Claims about copy
\* ------------------------------------------------------------------------
\* The second copy of the same snapshots is running or has returned.
SecondCopy == copy_run.run >= 2

\* C21: when the snapshots of S were copied to D and the same snapshots are
\* copied again, with relevance computed anew and the index of D loaded anew,
\* the second run hands no blob to a packer, writes no pack and no index file
\* to D and saves no snapshot in D.
C21_SecondCopyWritesNothing ==
    [][SecondCopy =>
          /\ be_packs' = be_packs
          /\ be_index' = be_index
          /\ sn_dest' = sn_dest
          /\ copy_run'.packed = EmptyMap
          /\ copy_run'.read = EmptyMap]_vars

\* The first run wrote packs and snapshots and the second run has returned.
C21_Witness ==
    /\ SecondCopy
    /\ pc = "copied"
    /\ new_packs # {}
    /\ sn_dest # {}
    /\ Cardinality(sn_dest) >= 2

\* The blobs reachable from the snapshots the running copy was called with.
CopiedBlobs == Closure({sn.tree : sn \in copy_run.snaps})

\* The blobs the running copy read from S and gave to a packer of D.
Transferred == DOMAIN copy_run.read \cap DOMAIN copy_run.packed

\* C22: after copy returned Ok, every blob reachable from a copied snapshot
\* (root tree, subtrees, file contents) is in the index of D, and it was there
\* before the run or it was read from S and handed to a packer of D; a blob
\* the index of D held at the start is never read from S nor handed to a
\* packer; no step of copy changes S.
C22_CopiedBlobsPresent ==
    [][/\ pc' = "copied" =>
             \A b \in CopiedBlobs' :
                /\ b \in index_dest_of(be_index')
                /\ b \in copy_run'.index_dest \/ b \in Transferred'
       /\ \A b \in copy_run'.index_dest :
             b \notin DOMAIN copy_run'.read \cup DOMAIN copy_run'.packed
       /\ sn_store' = sn_store
       /\ copy_run'.src = copy_run.src]_vars

\* A copy returned Ok that found some blobs of its snapshots in D and
\* transferred the others, sub tree and file contents included.
C22_Witness ==
    /\ pc = "copied"
    /\ CopiedBlobs \cap copy_run.index_dest # {}
    /\ Transferred \cap TreeBlobs # {}
    /\ Transferred \cap DataBlobs # {}
    /\ CopiedBlobs \subseteq copy_run.index_dest \cup Transferred

\* The snapshot files a step adds to D.
SavedNow == sn_dest' \ sn_dest

\* C23: a step of copy saves snapshots in D only when the data packer, the
\* tree packer and the indexer were finalized, and each saved snapshot is a
\* snapshot of S with id and parent cleared (the backend names it anew); when
\* a blob read, a packer add, the tree streamer or a finalize fails, copy
\* returns that error and D holds the snapshots it held when copy started.
C23_SaveAfterFinalize ==
    [][/\ SavedNow # {} =>
             /\ copy_run.finalized = {"data", "tree", "indexer"}
             /\ pc = "copy_save"
             /\ \A d \in SavedNow :
                   /\ d.parent = 0
                   /\ \E sn \in sn_store : /\ clear_ids(sn) = [d EXCEPT !.id = 0]
                                           /\ d.id # sn.id
       /\ (pc' = "error" /\ err' = "CopyFailed") => sn_dest' = copy_run'.dest_start]_vars

\* A first copy saved a snapshot that has a parent in S, after the three
\* finalize calls; a later copy failed in a finalize and saved nothing.
C23_Witness ==
    /\ pc = "error"
    /\ err = "CopyFailed"
    /\ copy_run.run = 2
    /\ copy_run.finalized = {"data", "tree"}
    /\ sn_dest = copy_run.dest_start
    /\ \E d \in sn_dest : \E sn \in sn_store :
          sn.parent # 0 /\ clear_ids(sn) = [d EXCEPT !.id = 0]


\* ------------------------------------------------------------------------
\* Claims about restore
\* ------------------------------------------------------------------------
\* write_at is called on file f in this step.
WrittenNow(f) ==
    \E to \in DOMAIN restore_run'.writes :
       to[1] = f /\ Count(restore_run'.writes, to) > Count(restore_run.writes, to)

\* The files of the plan with a length above zero.
LongFiles(r) == {f \in 1..Len(r.plan.file_lengths) : r.plan.file_lengths[f] > 0}

\* C24: under every interleaving of the reader and writer tasks of
\* restore_contents, set_length is called at most once on each file of
\* non-zero length, and when a write_at on such a file starts that call has
\* returned.
C24_AllocatedOnceBeforeWrite ==
    [][\A f \in LongFiles(restore_run') :
          /\ Count(restore_run'.set_length, f) <= 1
          /\ WrittenNow(f) => Count(restore_run.set_length, f) = 1]_vars

\* Two writers have written to the same file of non-zero length while other
\* tasks may still run; the file got its length once.
C24_Witness ==
    /\ pc = "restore_tasks"
    /\ \E w1, w2 \in DOMAIN restore_run.writers :
          /\ w1 # w2
          /\ restore_run.writers[w1].file_idx = restore_run.writers[w2].file_idx
          /\ restore_run.writers[w1].file_idx \in LongFiles(restore_run)
          /\ restore_run.writers[w1].at = "done"
          /\ restore_run.writers[w2].at = "done"
          /\ Count(restore_run.set_length, restore_run.writers[w1].file_idx) = 1

\* The items read from the backend so far that cover more than one blob.
MergedFetches ==
    {i \in restore_run.fetched :
        ~restore_run.reads[i].from_file /\ Len(restore_run.blobs[i].parts) > 1}

\* The blobs of item x lie one after the other in one pack.
Contiguous(x) ==
    \A n \in 1..(Len(x.parts) - 1) :
       /\ x.parts[n + 1].pack = x.parts[n].pack
       /\ x.parts[n + 1].bl.offset = x.parts[n].bl.offset + x.parts[n].bl.length

\* Item y follows item x in `blobs` although the conditions of the claim are
\* met for reading them at once.
LeftApart(x, y) ==
    /\ x.pack = y.pack
    /\ y.offset = x.offset + x.length
    /\ x.length + y.length < LIMIT_PACK_READ
    /\ \A n \in 1..Len(x.parts) : ~x.parts[n].from_file.some
    /\ \A n \in 1..Len(y.parts) : ~y.parts[n].from_file.some

\* C25: a fetch from the backend covers more than one blob only if the blobs
\* lie contiguously in one pack, the fetch is shorter than 40 MiB and none of
\* the blobs has an existing file of the destination as its source; blobs
\* that meet these conditions are read by one read_partial over the whole
\* range.
C25_Original ==
    /\ \A i \in MergedFetches :
          /\ Contiguous(restore_run.blobs[i])
          /\ restore_run.reads[i].length < LIMIT_PACK_READ
          /\ restore_run.reads[i].length =
                SeqSum([n \in 1..Len(restore_run.blobs[i].parts) |->
                           restore_run.blobs[i].parts[n].bl.length])
          /\ \A n \in 1..Len(restore_run.blobs[i].parts) :
                ~restore_run.blobs[i].parts[n].from_file.some
    /\ \A i \in 1..(Len(restore_run.blobs) - 1) :
          ~LeftApart(restore_run.blobs[i], restore_run.blobs[i + 1])

\* The locations of the plan whose content does not match yet: file_idx,
\* file_start and blob, taken from the File nodes.
UnmatchedLocations(r) ==
    {<<f, file_pos_of(r.sz, r.files[r.plan.names[f]], j), r.files[r.plan.names[f]].content[j]>> :
        <<f, j>> \in {fj \in (1..Len(r.plan.names)) \X (1..3) :
                        /\ fj[2] <= Len(r.files[r.plan.names[fj[1]]].content)
                        /\ ~(r.files[r.plan.names[fj[1]]].open
                             /\ fj[2] \in r.files[r.plan.names[fj[1]]].matching)}}

\* C26: when restore_contents has returned, write_at was called exactly once
\* for every location of the plan whose content does not match, at its
\* file_start and with the data of its blob, and for nothing else: not for a
\* matching location, and coalescing lost or doubled no destination.
C26_OneWritePerLocation ==
    pc = "restored" => restore_run.writes = [to \in UnmatchedLocations(restore_run) |-> 1]

\* A restore returned that read two blobs at once, wrote several locations
\* and left a matching location alone.
C26_Witness ==
    /\ pc = "restored"
    /\ MergedFetches # {}
    /\ Cardinality(DOMAIN restore_run.writes) >= 2
    /\ \E k \in DOMAIN restore_run.plan.r : \E n \in 1..Len(restore_run.plan.r[k]) :
          restore_run.plan.r[k][n].matches

\* The paths of the nodes of the stream, and those of its Dir nodes.
StreamPaths == {restore_run.stream[n].path : n \in 1..Len(restore_run.stream)}
DirPaths ==
    {restore_run.stream[n].path :
        n \in {m \in 1..Len(restore_run.stream) : restore_run.stream[m].node_type = "dir"}}

\* The node at `path` is located beneath the directory at `dir`.
Under(path, dir) == Len(dir) < Len(path) /\ SubSeq(path, 1, Len(dir)) = dir

\* C27: restore_metadata calls set_metadata exactly once for every node of
\* the path-ordered stream, and for a directory only after it was called for
\* every node beneath that directory.
C27_MetadataChildrenFirst ==
    LET applied == restore_run.applied
    IN  /\ \A i, j \in 1..Len(applied) : applied[i] = applied[j] => i = j
        /\ Range(applied) \subseteq StreamPaths
        /\ \A k \in 1..Len(applied) :
              applied[k] \in DirPaths =>
                 \A path \in StreamPaths :
                    Under(path, applied[k]) => \E m \in 1..(k - 1) : applied[m] = path
        /\ pc = "metadata_done" => Range(applied) = StreamPaths

\* restore_metadata returned on a stream with a directory in a directory, a
\* node in the inner one and a directory after them.
C27_Witness ==
    /\ pc = "metadata_done"
    /\ {<<1>>, <<1, 1>>, <<1, 2>>, <<1, 2, 1>>, <<2>>} = StreamPaths
    /\ {<<1>>, <<1, 2>>, <<2>>} \subseteq DirPaths
    /\ Len(restore_run.applied) = 5

\* The loop of collect_and_prepare is at a node and a destination entry of
\* the same path whose types do not fit.
AtMismatch ==
    /\ pc = "collect"
    /\ restore_run.dst # <<>>
    /\ restore_run.next_node <= Len(restore_run.stream)
    /\ Head(restore_run.dst).path = restore_run.stream[restore_run.next_node].path
    /\ LET node == restore_run.stream[restore_run.next_node]
           entry == Head(restore_run.dst)
       IN  \/ node.node_type = "dir" /\ entry.file_type # "dir"
           \/ node.node_type = "file" /\ entry.file_type # "file"
           \/ node.node_type = "symlink"

\* C28: when a node of the snapshot and an entry of the destination have the
\* same path and types that do not fit (Dir node over a non-directory, File
\* node over a non-regular file, or a special node), collect_and_prepare (not
\* a dry run) removes the existing entry before the node is restored.
C28_Original ==
    [][(AtMismatch /\ ~restore_run.dry_run) =>
          LET path == Head(restore_run.dst).path
          IN  path \notin DOMAIN restore_run'.fs]_vars


\* ------------------------------------------------------------------------
\* Claims about repair
\* ------------------------------------------------------------------------
\* The tree loads; the Dir node has no subtree that loads.
Loads(id) == id # NoTree /\ id \in repair_run.index_trees
BrokenDir(node) == node.node_type = "dir" /\ ~Loads(node.subtree)

\* The trees repair reads from the one with this id on: the tree, if it loads,
\* and the subtrees that load.
RECURSIVE Reach(_)
Reach(id) ==
    IF ~Loads(id) THEN {}
    ELSE {id} \cup UNION {Reach(node.subtree) :
                            node \in {n \in Range(repair_run.store[id]) : n.node_type = "dir"}}
HasBrokenDir(id) == \E t \in Reach(id) : \E node \in Range(repair_run.store[t]) : BrokenDir(node)

\* A file node with a content blob the index lacks or a wrong size.
BadFile(node) ==
    /\ node.node_type = "file"
    /\ \/ \E n \in 1..Len(node.content) : node.content[n] \notin repair_run.index_data
       \/ node.size # ContentSize(node.content)
Healthy(id) ==
    /\ Loads(id)
    /\ \A t \in Reach(id) : \A node \in Range(repair_run.store[t]) :
          ~BrokenDir(node) /\ ~BadFile(node)

\* repair_snapshots (no dry run) is about to process a snapshot.
Repairing == pc = "repair_loop" /\ repair_run.at <= Len(repair_run.snaps) /\ ~repair_run.dry_run
Current == repair_run.snaps[repair_run.at]

\* The trees given to the packer or found in the index hold this id.
Emitted(id) == id \in repair_run'.index_trees \cup repair_run'.packed

\* What the step did to the trees on the way to a Dir node whose subtree does
\* not load: the Dir carries the suffix and points to the empty tree, which
\* is in the index or was given to the packer; each tree from which such a
\* Dir is reached was replaced by a new tree that was emitted and that points
\* to the replacements of its subtrees.
BrokenDirsReplaced ==
    \A t \in Reach(Current.tree) :
       HasBrokenDir(t) =>
          /\ t \in DOMAIN repair_run'.replaced
          /\ repair_run'.replaced[t].changed = "SubTree"
          /\ repair_run'.replaced[t].id # t
          /\ Emitted(repair_run'.replaced[t].id)
          /\ LET old == repair_run.store[t]
                 new == repair_run'.store[repair_run'.replaced[t].id]
             IN  /\ Len(new) = Len(old)
                 /\ \A n \in 1..Len(old) :
                       /\ BrokenDir(old[n]) =>
                             /\ new[n].name = old[n].name \o <<Suffix>>
                             /\ new[n].subtree = EmptyTreeId
                             /\ Emitted(EmptyTreeId)
                       /\ (old[n].node_type = "dir" /\ HasBrokenDir(old[n].subtree)) =>
                             /\ new[n].name = old[n].name
                             /\ new[n].subtree = repair_run'.replaced[old[n].subtree].id

\* The step saved a snapshot with the new root and this `original`, and
\* queued the old snapshot for deletion.
SavedWith(original) ==
    /\ \E sn \in sn_store' \ sn_store :
          /\ sn.tree = repair_run'.replaced[Current.tree].id
          /\ sn.original = original
    /\ Current.id \in Range(repair_run'.delete)

\* C29 as stated: when the subtree of a Dir node cannot be loaded (or the
\* node has no subtree id), the repaired parent holds that Dir with the
\* suffix and the id of an empty tree written via the packer if the index
\* lacks it, every ancestor up to the root is re-emitted, a new snapshot with
\* the repaired root and `original` set to the id of the old snapshot is
\* saved, and the old snapshot id is queued for deletion.
C29_Original ==
    [][(Repairing /\ HasBrokenDir(Current.tree)) =>
          BrokenDirsReplaced /\ SavedWith(Current.id)]_vars

\* C29 amended: as stated, but `original` of the new snapshot is the id of
\* the old snapshot only when the old snapshot has no `original`; otherwise
\* the `original` of the old snapshot is kept.
C29_OriginalPreserved ==
    [][(Repairing /\ HasBrokenDir(Current.tree)) =>
          /\ BrokenDirsReplaced
          /\ SavedWith(IF Current.original = 0 THEN Current.id ELSE Current.original)]_vars

\* repair_snapshots returned after it replaced a Dir two levels below the
\* root of a snapshot and saved the new snapshot; the empty tree went to the
\* packer.
C29_Witness ==
    /\ pc = "repaired"
    /\ ~repair_run.dry_run
    /\ 3 \notin repair_run.index_trees
    /\ {1, 2} \subseteq DOMAIN repair_run.replaced
    /\ EmptyTreeId \in repair_run.packed
    /\ repair_run.saved # {}
    /\ repair_run.delete # <<>>

\* C30: a snapshot whose root tree cannot be loaded is queued for deletion
\* and no snapshot is saved in its place; a snapshot whose whole tree graph
\* loads, with no missing blob and no wrong file size, is neither rewritten
\* nor queued for deletion.
C30_RootDamagedOrHealthy ==
    [][(pc = "repair_loop" /\ repair_run.at <= Len(repair_run.snaps)) =>
          /\ ~Loads(Current.tree) =>
                /\ repair_run'.delete = Append(repair_run.delete, Current.id)
                /\ sn_store' = sn_store
                /\ repair_run'.saved = repair_run.saved
          /\ Healthy(Current.tree) =>
                /\ repair_run'.delete = repair_run.delete
                /\ sn_store' = sn_store
                /\ repair_run'.saved = repair_run.saved
                /\ repair_run'.packed = repair_run.packed]_vars

\* repair_snapshots returned: one snapshot lost its root and is deleted
\* without a replacement, another is healthy and still there.
C30_Witness ==
    /\ pc = "repaired"
    /\ ~repair_run.dry_run
    /\ repair_run.opts_delete
    /\ repair_run.saved = {}
    /\ \E a, b \in 1..Len(repair_run.snaps) :
          /\ ~Loads(repair_run.snaps[a].tree)
          /\ repair_run.snaps[a].id \in repair_run.removed
          /\ Healthy(repair_run.snaps[b].tree)
          /\ repair_run.snaps[b] \in sn_store

\* C31: with dry_run, repair_snapshots gives no tree to the packer, saves no
\* snapshot, finalizes neither packer nor indexer and deletes no snapshot;
\* without dry_run, snapshots are deleted only if opts.delete is set, only
\* those queued for deletion, and only after every snapshot has been
\* processed and packer and indexer have been finalized.
C31_DryRunAndDeleteLast ==
    [][/\ repair_run.dry_run =>
             /\ repair_run'.packed = {}
             /\ repair_run'.saved = {}
             /\ ~repair_run'.finalized
             /\ repair_run'.removed = {}
             /\ sn_store' = sn_store
       /\ (~repair_run.dry_run /\ (sn_store \ sn_store' # {} \/ repair_run'.removed # {})) =>
             /\ repair_run.opts_delete
             /\ repair_run.at > Len(repair_run.snaps)
             /\ repair_run.finalized
             /\ repair_run'.removed \subseteq Range(repair_run.delete)
             /\ \A sn \in sn_store \ sn_store' : sn.id \in Range(repair_run.delete)]_vars

\* A dry run with opts.delete returned: it replaced trees and queued a
\* snapshot for deletion, and the repository is as it was.
C31_Witness ==
    /\ pc = "repaired"
    /\ repair_run.dry_run
    /\ repair_run.opts_delete
    /\ DOMAIN repair_run.replaced # {}
    /\ repair_run.delete # <<>>
    /\ repair_run.packed = {}
    /\ sn_store = Range(repair_run.snaps)

\* C37 as stated: at every point of repair_snapshots, the root tree of every
\* snapshot file the run has saved is in the index the run started with, or
\* was given to the packer and packer and indexer have been finalized.
C37_Original ==
    \A sn \in repair_run.saved :
       \/ sn.tree \in repair_run.index_trees
       \/ sn.tree \in repair_run.packed /\ repair_run.finalized

\* The tags of the lists of opts.tag.
ConfiguredTags == UNION {repair_run.tag[n] : n \in 1..Len(repair_run.tag)}

\* C40: a snapshot that repair saves carries exactly the tags of opts.tag;
\* a tag of the snapshot it replaces is absent unless opts.tag holds it.
C40_TagsReplaced ==
    \A sn \in repair_run.saved :
       \E n \in 1..Len(repair_run.snaps) :
          /\ sn.id = saved_id(repair_run.snaps[n])
          /\ sn.tags = ConfiguredTags
          /\ \A t \in repair_run.snaps[n].tags \ ConfiguredTags : t \notin sn.tags

\* A snapshot with the tags x, z and repaired was saved with the tags fixed,
\* x and y of opts.tag.
C40_Witness ==
    /\ pc = "repaired"
    /\ repair_run.tag = <<{"fixed"}, {"x", "y"}>>
    /\ \E sn \in repair_run.saved :
          /\ sn.id = 12
          /\ sn.tags = {"fixed", "x", "y"}
          /\ sn \in sn_store

\* ------------------------------------------------------------------------
\* Claims about PrunePlan::new and the end of the plan
\* ------------------------------------------------------------------------
\* PrunePlan::new returns in this step.
NewReturns == pc = "idle" /\ pc' = "new"

\* The pack ids some index file lists as live and some index file lists in
\* packs_to_delete.
InBothLists == Ids(Listed(be_index)) \cap Ids(Tombstoned(be_index))

\* The positions of the PrunePacks of a plan with this id and this mark.
Entries(pl, id, delete_mark) ==
    {e \in UNION {{i} \X (1..Len(pl.index_files[i].packs)) : i \in 1..Len(pl.index_files)} :
        /\ pl.index_files[e[1]].packs[e[2]].id = id
        /\ pl.index_files[e[1]].packs[e[2]].delete_mark = delete_mark}

\* The PruneIndex files of a plan whose index file lists the id as live / in
\* packs_to_delete.
ListsLive(pl, id) ==
    {i \in 1..Len(pl.index_files) : id \in Ids(Range(be_index[pl.index_files[i].id].packs))}
ListsMarked(pl, id) ==
    {i \in 1..Len(pl.index_files) :
        id \in Ids(Range(be_index[pl.index_files[i].id].packs_to_delete))}

\* C32 as stated: of a pack id that is both live in some index file and in
\* packs_to_delete of some index file, PrunePlan::new removes the live entry,
\* keeps the entry of packs_to_delete and flags the index file of the live
\* entry as modified.
C32_Original ==
    [][NewReturns =>
          \A id \in InBothLists :
             /\ Entries(plan', id, FALSE) = {}
             /\ Entries(plan', id, TRUE) # {}
             /\ \A i \in ListsLive(plan', id) : plan'.index_files[i].modified]_vars

\* C32 amended: of such a pack id PrunePlan::new removes every entry of
\* packs_to_delete, keeps one live entry and flags every index file that
\* listed the id in packs_to_delete as modified.
C32_MarkedEntryRemoved ==
    [][NewReturns =>
          \A id \in InBothLists :
             /\ Entries(plan', id, TRUE) = {}
             /\ Cardinality(Entries(plan', id, FALSE)) = 1
             /\ \A i \in ListsMarked(plan', id) : plan'.index_files[i].modified]_vars

\* PrunePlan::new returned a plan for two index files: the first lists pack
\* 1 as live, the second lists only pack 1 and only in packs_to_delete.
C32_Witness ==
    /\ pc = "new"
    /\ DOMAIN be_index = {1, 2}
    /\ be_index[2] = ListedFile(<<>>, <<1>>)
    /\ 1 \in InBothLists
    /\ \E i \in 1..2 : plan.index_files[i].id = 2 /\ plan.index_files[i].packs = <<>>

\* The entries an index file has in its two lists.
ListLen(id) == Len(be_index[id].packs) + Len(be_index[id].packs_to_delete)

\* C33: after PrunePlan::new every pack id occurs at most once among the
\* PrunePacks of the plan, every index file from which an entry was dropped
\* is flagged modified, and a plan that from_prune_options returns holds
\* every index file that was flagged.
C33_PackIdsUnique ==
    [][/\ NewReturns =>
             /\ \A id \in CatalogPacks :
                   Cardinality(Entries(plan', id, FALSE) \cup Entries(plan', id, TRUE)) <= 1
             /\ \A i \in 1..Len(plan'.index_files) :
                   Len(plan'.index_files[i].packs) < ListLen(plan'.index_files[i].id)
                      => plan'.index_files[i].modified
       /\ (pc = "new" /\ pc' = "planned") =>
             \A i \in 1..Len(plan.index_files) :
                plan.index_files[i].modified =>
                   \E k \in 1..Len(plan'.index_files) :
                      plan'.index_files[k].id = plan.index_files[i].id]_vars

\* from_prune_options returned a plan for one index file that lists pack 1
\* twice: the file is in the plan, flagged and with pack 1 once, and all of
\* its packs are kept.
C33_Witness ==
    /\ pc = "planned"
    /\ DOMAIN be_index = {1}
    /\ Len(SelectSeq(be_index[1].packs \o be_index[1].packs_to_delete,
                     LAMBDA p : p.id = 1)) = 2
    /\ Len(plan.index_files) = 1
    /\ plan.index_files[1].modified
    /\ Cardinality(Entries(plan, 1, FALSE) \cup Entries(plan, 1, TRUE)) = 1
    /\ \A j \in 1..Len(plan.index_files[1].packs) : plan.index_files[1].packs[j].to_do = "Keep"

\* ------------------------------------------------------------------------
\* Claims about the executor
\* ------------------------------------------------------------------------
\* The plan decided to keep the tombstone of pack i of `packs`.
KeptMarked(i) == packs[i].to_do \in {"KeepMarked", "KeepMarkedAndCorrect"}

\* A worker executes the arm of pack i in this step.
Handles(i) == pc = "packs" /\ pc' = "packs" /\ i \in pending /\ i \notin pending'

\* The packs_to_delete of the new index after the step: of the file the
\* indexer holds and of the index files written in this run.
NewTombstones ==
    Range(indexer'.file.packs_to_delete)
    \cup UNION {Range(be_index'[f].packs_to_delete) : f \in written' \cap DOMAIN be_index'}

\* The pack is in packs_to_delete of the new index with the time it had, or
\* with the time of the plan when it had none.
ReEmitted(pack) ==
    \E p \in NewTombstones :
       /\ p.id = pack.id
       /\ p.blobs = pack.blobs
       /\ p.time = IF pack.time = NoTime THEN plan_time ELSE pack.time

\* The pack is in a list of pack files to remove after the step.
QueuedForRemoval(pack) == pack.id \in data_packs_remove' \cup tree_packs_remove'

\* The pack file is not removed in the step.
FileStays(pack) == pack.id \in DOMAIN be_packs => pack.id \in DOMAIN be_packs'

\* C34 as stated: the executor re-emits a pack decided KeepMarked or
\* KeepMarkedAndCorrect into packs_to_delete of the new index with its time
\* (the time of the plan when it had none) and never deletes its pack file
\* in that run.
C34_Original ==
    [][\A i \in 1..Len(packs) :
          KeptMarked(i) =>
             /\ FileStays(packs[i])
             /\ Handles(i) => ReEmitted(packs[i]) /\ ~QueuedForRemoval(packs[i])]_vars

\* C34 amended: as stated when instant_delete is not set; with
\* instant_delete the pack is not re-emitted but queued for removal.
C34_KeptUnlessInstantDelete ==
    [][\A i \in 1..Len(packs) :
          KeptMarked(i) =>
             IF opts.instant_delete
             THEN Handles(i) =>
                     /\ QueuedForRemoval(packs[i])
                     /\ \A p \in NewTombstones : p.id # packs[i].id
             ELSE /\ FileStays(packs[i])
                  /\ Handles(i) => ReEmitted(packs[i]) /\ ~QueuedForRemoval(packs[i])]_vars

\* A worker handled a pack whose tombstone had no time: the indexer holds it
\* in packs_to_delete with the time of the plan.
C34_Witness ==
    /\ pc = "packs"
    /\ ~opts.instant_delete
    /\ \E i \in (1..Len(packs)) \ pending :
          /\ packs[i].to_do = "KeepMarkedAndCorrect"
          /\ packs[i].time = NoTime
          /\ \E p \in Range(indexer.file.packs_to_delete) :
                p.id = packs[i].id /\ p.time = plan_time

\* ------------------------------------------------------------------------
\* Claims about filter_index_files
\* ------------------------------------------------------------------------
\* The index file was normalized or holds a pack that is not kept as it is.
MustRewrite(index, instant_delete) ==
    \/ index.modified
    \/ \E p \in Range(index.packs) :
          p.to_do # "Keep" /\ (instant_delete \/ p.to_do # "KeepMarked")

\* The index file holds fewer than 10 000 blobs.
Small(index) ==
    Cardinality(UNION {{j} \X (1..Len(index.packs[j].blobs)) : j \in 1..Len(index.packs)})
       < 10000

\* The index files of the run that were not selected for rewriting.
NotSelected ==
    DOMAIN start.index
    \ (IF pc = "planned" THEN {plan.index_files[i].id : i \in 1..Len(plan.index_files)}
       ELSE indexes_remove)

\* The pack ids of the new index after the step.
ReEmittedIds ==
    Ids(Range(indexer'.file.packs) \cup Range(indexer'.file.packs_to_delete))
    \cup Ids(Listed(Restrict(be_index', written' \cap DOMAIN be_index'))
             \cup Tombstoned(Restrict(be_index', written' \cap DOMAIN be_index')))

\* C35: filter_index_files selects an index file iff it was normalized, holds
\* a pack that is not Keep (and, unless instant_delete, not KeepMarked) or
\* holds fewer than 10 000 blobs; when one file is selected and only because
\* it is small, none is rewritten.  An index file that is not selected is
\* not deleted and its packs are not re-emitted.
C35_SelectedForRewriting ==
    [][/\ (pc = "decided" /\ pc' = "planned") =>
             LET selected == SelectSeq(plan.index_files,
                                       LAMBDA index : MustRewrite(index, opts'.instant_delete)
                                                      \/ Small(index))
             IN  plan'.index_files =
                    IF Len(selected) = 1 /\ ~MustRewrite(selected[1], opts'.instant_delete)
                    THEN <<>> ELSE selected
       /\ pc \in {"planned", "unreferenced", "packs", "finalize_data", "finalize_indexer",
                   "delete_indexes", "delete_data", "delete_tree"} =>
             \A f \in NotSelected :
                /\ f \in DOMAIN be_index'
                /\ be_index'[f] = start.index[f]
                /\ Ids(Range(start.index[f].packs) \cup Range(start.index[f].packs_to_delete))
                      \cap ReEmittedIds = {}]_vars

\* prune_repository returned Ok: the first index file, with 10 000 blobs and
\* nothing to change, is as it was; the second, small one was rewritten.
C35_Witness ==
    /\ pc = "done"
    /\ DOMAIN start.index = {1, 2}
    /\ 1 \in DOMAIN be_index
    /\ be_index[1] = start.index[1]
    /\ Len(be_index[1].packs) = 1
    /\ Len(be_index[1].packs[1].blobs) = 10000
    /\ 2 \notin DOMAIN be_index
    /\ written # {}

\* ------------------------------------------------------------------------
\* Claims about decide_repack
\* ------------------------------------------------------------------------
\* The sum of used_size over the packs decided Repack: set_todo adds
\* used_size + unused_size of such a pack to `repack` and unused_size to
\* `repackrm`.
UsedSizeToRepack == size_sum(plan.stats).repack - size_sum(plan.stats).repackrm

\* The options' max_repack in bytes; the total is that of all indexed packs
\* which are not marked.
MaxRepackBytes ==
    IF opts.max_repack.kind = "Size" THEN opts.max_repack.value
    ELSE (opts.max_repack.value * (size_sum(plan.stats).used + size_sum(plan.stats).unused)) \div 100

\* C36: in a plan with at least one pack decided Repack, the sum of used_size
\* over the packs decided Repack is strictly below max_repack (a size in
\* bytes, or p * total / 100 for a percentage); with max_repack of size 0 no
\* pack is decided Repack.
C36_RepackBelowMaxRepack ==
    pc = "planned" =>
       /\ plan.stats.packs.repack > 0 /\ opts.max_repack.kind # "Unlimited"
             => UsedSizeToRepack < MaxRepackBytes
       /\ opts.max_repack = Size(0) => plan.stats.packs.repack = 0

\* A plan under a limit in which a pack is repacked, the limit is used up to
\* the last byte and another candidate was kept.
C36_Witness ==
    /\ pc = "planned"
    /\ opts.max_repack.kind = "Size"
    /\ plan.stats.packs.repack > 0
    /\ UsedSizeToRepack + 1 = MaxRepackBytes
    /\ plan.stats.packs.partly_used > plan.stats.packs.repack

\* ------------------------------------------------------------------------
\* Claims about a prune that fails after packs were written
\* ------------------------------------------------------------------------
\* Pack id is listed as a live pack in an index file of ix.
HasIndexEntry(ix, id) ==
    \E f \in DOMAIN ix : \E i \in 1..Len(ix[f].packs) : ix[f].packs[i].id = id

\* Pack id is listed in the file the indexer holds in memory.
InIndexer(id) == \E i \in 1..Len(indexer.file.packs) : indexer.file.packs[i].id = id

\* The errors of prune_repository after its setup.
LateFailures == {"PackFailed", "RepackerFailed", "IndexerFailed", "DeleteFailed"}

\* C38 as stated: when prune_repository has failed after a repacker wrote new
\* packs, every new pack has an index entry in the backend.
C38_Original ==
    (pc = "error" /\ err \in LateFailures /\ new_packs # {}) =>
       \A id \in new_packs : HasIndexEntry(be_index, id)

\* C38: when prune_repository returns an error after a repacker wrote new
\* packs, every new pack file is in the backend.  Before the indexer was
\* finalized, a new pack has an index entry in the backend exactly if its
\* entry was not in the memory of the indexer any more: the indexer saves when
\* it is full or aged, and what it holds when the error is returned is
\* dropped.  After finalize, when a removal fails, every new pack has one.
C38_UnsavedEntriesAreDropped ==
    [][(pc' = "error" /\ err' \in LateFailures /\ new_packs # {}) =>
          \A id \in new_packs :
             /\ id \in DOMAIN be_packs'
             /\ HasIndexEntry(be_index', id) <=> (err' = "DeleteFailed" \/ ~InIndexer(id))]_vars

\* A failed run that wrote two new packs: the entry of one was saved, the
\* other has none.
C38_Witness ==
    /\ pc = "error"
    /\ err \in LateFailures
    /\ \E id \in new_packs : HasIndexEntry(be_index, id)
    /\ \E id \in new_packs : ~HasIndexEntry(be_index, id)

\* ------------------------------------------------------------------------
\* Claims about decide_packs and the counters of the used blobs
\* ------------------------------------------------------------------------
\* The pack decide_packs visits next, before and after the visit.
Visited == plan.index_files[Head(plan.positions)[1]].packs[Head(plan.positions)[2]]
VisitedAfter == plan'.index_files[Head(plan.positions)[1]].packs[Head(plan.positions)[2]]

\* The used ids whose counter the visit brings to 0: the ids the visited pack
\* counts as used.
UsedHere == {id \in DOMAIN plan.used_ids : plan.used_ids[id] > 0 /\ plan'.used_ids[id] = 0}

\* The visited pack was pushed to repack_candidates.
BecameCandidate ==
    /\ Len(plan'.repack_candidates) = Len(plan.repack_candidates) + 1
    /\ LET rc == plan'.repack_candidates[Len(plan'.repack_candidates)]
       IN  <<rc.index_num, rc.pack_num>> = Head(plan.positions)

\* The number of index entries of blob id in the plan.
EntriesOf(id) ==
    SeqSum([k \in 1..Len(all_packs(plan.index_files)) |->
               Cardinality({i \in 1..Len(all_packs(plan.index_files)[k].blobs) :
                              all_packs(plan.index_files)[k].blobs[i].id = id})])

\* C39: a visit of decide_packs counts as used exactly the ids whose counter
\* it brings to 0, each with one blob entry, and a counter at 0 stays there;
\* a pack that counts an id as used is decided Keep or Recover or becomes a
\* repack candidate.  When every pack was visited every counter of the used
\* map is at 0, so each id was counted once, and decide_repack decides each
\* candidate Keep or Repack.
C39_UsedByOnePack ==
    [][pc = "deciding" =>
          IF plan.positions # <<>>
          THEN /\ \A id \in DOMAIN plan.used_ids :
                     plan.used_ids[id] = 0 => plan'.used_ids[id] = 0
               /\ plan'.stats.blobs[Visited.blob_type].used
                     - plan.stats.blobs[Visited.blob_type].used = Cardinality(UsedHere)
               /\ UsedHere # {} =>
                     \/ VisitedAfter.to_do \in {"Keep", "Recover"}
                     \/ VisitedAfter.to_do = "Undecided" /\ BecameCandidate
          ELSE /\ \A id \in DOMAIN plan.used_ids : plan.used_ids[id] = 0
               /\ pc' = "planned" =>
                     (plan'.stats.packs.keep + plan'.stats.packs.repack)
                        - (plan.stats.packs.keep + plan.stats.packs.repack)
                     = Len(plan.repack_candidates)]_vars

\* decide_packs has visited every pack of a plan in which a used blob has more
\* than CounterMax index entries, several of them in one pack: one pack became
\* a repack candidate, a pack full of entries of the blob is not needed.
C39_Witness ==
    /\ pc = "deciding"
    /\ plan.positions = <<>>
    /\ \E id \in DOMAIN plan.used_ids : EntriesOf(id) > CounterMax
    /\ plan.repack_candidates # <<>>
    /\ \E k \in 1..Len(all_packs(plan.index_files)) :
          /\ all_packs(plan.index_files)[k].to_do = "MarkDelete"
          /\ Len(all_packs(plan.index_files)[k].blobs) = ManyCopies

====
